---- MODULE Spec2Model ----
(***************************************************************************)
(* Clock-tree manager of the atsamd HAL (thumbv7em, clock v2): the GCLK    *)
(* generators (gclk.rs) and the DPLLs (dpll.rs).                           *)
(*                                                                         *)
(* The Rust typestate is modelled as data: a unit is a free Token, a       *)
(* Config or an active (Enabled) node, and a method that the type system   *)
(* offers only for some type parameters (N = Zero, G: NotGen0, ...) is an  *)
(* action guarded by the corresponding condition.  A call that busy-waits  *)
(* on a synchronisation bit is split at the wait: the hardware clears the  *)
(* bit in a step of its own (HwSync).  panic! halts the program.           *)
(***************************************************************************)
EXTENDS Integers, Sequences, FiniteSets, TLC

VARIABLES
    halted,          \* a panic! was raised; the program runs no further
    overflow_checks, \* build profile: arithmetic overflow panics (TRUE) or wraps
    pc,              \* the call that is blocked in a busy-wait, or Idle
    last,            \* the call that returned or panicked last
    dpll,            \* per DPLL: typestate, Config fields, Enabled counter
    dpllreg,         \* per DPLL: DPLLCTRLA, DPLLCTRLB, DPLLRATIO fields
    dpllsync,        \* per DPLL: DPLLSYNCBUSY bits
    srcCount,        \* Enabled counter of each oscillator
    pclkOwner,       \* per DPLL: who holds its Pclk<D, G>
    dpllTok,         \* per DPLL: DpllTokens constructed, and free in the caller's hands
    gclk,            \* per generator: typestate, GclkConfig fields, count
    gclkreg,         \* per generator: GENCTRL fields
    gclksync,        \* per generator: its SYNCBUSY.GENCTRL bit
    gclkTok          \* per generator: GclkTokens constructed, and free in the caller's hands

dpllVars == <<dpll, dpllreg, dpllsync, pclkOwner, dpllTok>>
gclkVars == <<gclk, gclkreg, gclksync, gclkTok>>
vars == <<halted, overflow_checks, pc, last, dpll, dpllreg, dpllsync, srcCount,
          pclkOwner, dpllTok, gclk, gclkreg, gclksync, gclkTok>>

----------------------------------------------------------------------------
(* Bounds of the model *)

\* Largest value of a type-level Enabled counter that the model follows.
MaxCount == 2

----------------------------------------------------------------------------
(* Program constants *)

NumDpll == 2
NumGen == 12
MinInputFreq == 32000
MaxInputFreq == 3200000
MinOutputFreq == 96000000
MaxOutputFreq == 200000000
MinPrediv == 2
MaxPrediv == 4096
LdrMask == 8191
LdrFracMask == 31
FracDen == 32

DpllIds == 0 .. (NumDpll - 1)
GenIds == 0 .. (NumGen - 1)
Oscillators == {"Dfll", "Xosc0", "Xosc1", "Xosc32k"}

\* u16 arithmetic wraps at 2^16
Wrap16(x) == x % (2^16)

\* A u32 is held as its two 16-bit halves, since TLC's integers are 32-bit
\* signed; U32(n) is the u32 of a number n < 2^31
U32(n) == [hi |-> n \div 2^16, lo |-> n % (2^16)]
Le32(a, b) == a.hi < b.hi \/ (a.hi = b.hi /\ a.lo <= b.lo)

\* x * y for x, y < 2^16, as hi * 2^16 + lo
Mul16(x, y) ==
    LET u == x * (y \div 256)
        t == (u % 256) * 256 + x * (y % 256)
    IN  [hi |-> u \div 256 + t \div 2^16, lo |-> t % (2^16)]

\* a * b for a < 2^31, b < 2^17, exactly: over * 2^32 + (the u32 low)
Mul32(a, b) ==
    LET al == a % (2^16)
        ah == a \div 2^16
        bl == b % (2^16)
        bh == b \div 2^16
        m0 == Mul16(al, bl)
        m1 == Mul16(ah, bl)
        s1 == m0.hi + m1.lo + al * bh
    IN  [over |-> s1 \div 2^16 + m1.hi + ah * bh,
         low |-> [hi |-> s1 % (2^16), lo |-> m0.lo]]

\* x & (2^k - 1) for a mask m = 2^k - 1
Mask(x, m) == x % (m + 1)

Idle == [op |-> "idle", unit |-> 0, at |-> "-"]
NoCall == [op |-> "none", unit |-> 0, outcome |-> "ok", msg |-> "", arg |-> 0]
Returned(op, unit) == [op |-> op, unit |-> unit, outcome |-> "ok", msg |-> "", arg |-> 0]
ReturnedOf(op, unit, arg) ==
    [op |-> op, unit |-> unit, outcome |-> "ok", msg |-> "", arg |-> arg]
Panicked(op, unit, msg, arg) ==
    [op |-> op, unit |-> unit, outcome |-> "panic", msg |-> msg, arg |-> arg]

\* The program can start a call: it has not panicked and is in no call
Running == ~halted /\ pc = Idle

----------------------------------------------------------------------------
(* DPLL: pure functions *)

\* From<DynDpllSourceId> for REFCLK_A
Refclk(I) ==
    CASE I = "Pclk" -> "GCLK"
      [] I = "Xosc0" -> "XOSC0"
      [] I = "Xosc1" -> "XOSC1"
      [] I = "Xosc32k" -> "XOSC32"

\* Variant of NewDpll with the pre-divider 2 for every source
NewDpllPrediv2(I, src_freq, prediv) ==
    [I |-> I, src_freq |-> src_freq, mult |-> 1, frac |-> 0,
     lock_bypass |-> FALSE, wake_up_fast |-> FALSE, on_demand |-> TRUE,
     prediv |-> 2]

\* The value a constructor builds: mult 1, frac 0, on_demand set
NewDpll(I, src_freq, prediv) ==
    [I |-> I, src_freq |-> src_freq, mult |-> 1, frac |-> 0,
     lock_bypass |-> FALSE, wake_up_fast |-> FALSE, on_demand |-> TRUE,
     prediv |-> prediv]

NoDpll ==
    [I |-> "none", src_freq |-> 0, mult |-> 0, frac |-> 0,
     lock_bypass |-> FALSE, wake_up_fast |-> FALSE, on_demand |-> FALSE,
     prediv |-> 0]

\* Variant of PredivValid without the parity test
PredivValidNoParity(prediv) == ~(prediv < MinPrediv \/ prediv > MaxPrediv)

\* Dpll::set_prediv: the condition under which it does not panic
PredivValid(prediv) ==
    ~(prediv < MinPrediv \/ prediv > MaxPrediv \/ prediv % 2 # 0)

\* Dpll::input_freq: u32 division
input_freq(c) == c.src_freq \div c.prediv

\* The multiplication of Dpll::output_freq, exactly
output_product(c) == Mul32(input_freq(c), c.mult + c.frac \div FracDen)

\* Dpll::output_freq in a build that wraps on overflow
output_freq(c) == output_product(c).low

\* The u32 multiplication of Dpll::output_freq overflows
Overflows(c) == output_product(c).over > 0

\* Dpll::freq
DpllFreq(c) == output_freq(c)

\* Variant of InputFreqValid over the open interval
InputFreqValidOpen(c) ==
    input_freq(c) > MinInputFreq /\ input_freq(c) < MaxInputFreq

\* Dpll::enable: (32_000..=3_200_000).contains(&self.input_freq())
InputFreqValid(c) ==
    input_freq(c) >= MinInputFreq /\ input_freq(c) <= MaxInputFreq

\* Dpll::enable: (96_000_000..=200_000_000).contains(&self.output_freq())
OutputFreqValid(c) ==
    /\ Le32(U32(MinOutputFreq), output_freq(c))
    /\ Le32(output_freq(c), U32(MaxOutputFreq))

\* DpllToken::set_source_div as called by Dpll::enable: prediv / 2 - 1 in u16,
\* masked to the 10-bit field
SourceDivField(prediv) == Mask(Wrap16(prediv \div 2 - 1 + 2^16), 2^10 - 1)

\* DpllToken::set_loop_div: (int - 1) & 0x1FFF in u16, frac & 0x1F
LdrField(int) == Mask(Wrap16(int - 1 + 2^16), LdrMask)
LdrFracField(frac) == Mask(frac, LdrFracMask)

----------------------------------------------------------------------------
(* DPLL: state *)

\* No Config and no active node exists for the unit
NoUnit == [st |-> "none", cfg |-> NoDpll, count |-> 0]

\* The Config was moved into a call that never returns
LostUnit == [st |-> "lost", cfg |-> NoDpll, count |-> 0]

\* DPLLCTRLA/DPLLCTRLB/DPLLRATIO after reset
DpllRegReset ==
    [refclk |-> "XOSC32", div |-> 0, ldr |-> 0, ldrfrac |-> 0,
     lbypass |-> FALSE, wuf |-> FALSE, ondemand |-> TRUE, enable |-> FALSE,
     clkrdy |-> FALSE, lock |-> FALSE]

DpllSyncIdle == [enable |-> FALSE, dpllratio |-> FALSE]

InitDpllVars ==
    /\ dpll = [d \in DpllIds |-> NoUnit]
    /\ dpllreg = [d \in DpllIds |-> DpllRegReset]
    /\ dpllsync = [d \in DpllIds |-> DpllSyncIdle]
    /\ pclkOwner = [d \in DpllIds |-> "caller"]
    /\ dpllTok = [d \in DpllIds |-> [issued |-> 0, free |-> 0]]

\* Live DpllToken instances of unit d: the free ones and the one inside a
\* Config or an active node
DpllLiveTokens(d) ==
    dpllTok[d].free
    + (IF dpll[d].st \in {"config", "enabling", "enabled", "disabling"} THEN 1 ELSE 0)

----------------------------------------------------------------------------
(* DPLL: operations *)

\* DpllToken::new: one more token of unit d
DpllTokenNew(tok, d) ==
    [tok EXCEPT ![d] = [issued |-> @.issued + 1, free |-> @.free + 1]]

\* A constructor consumes the token and yields the Config c
DpllConstruct(d, c) ==
    /\ Running
    /\ dpllTok[d].free > 0
    /\ dpll[d].st = "none"
    /\ dpllTok' = [dpllTok EXCEPT ![d].free = @ - 1]
    /\ dpll' = [dpll EXCEPT ![d] = [st |-> "config", cfg |-> c, count |-> 0]]

\* free() takes the Config apart and hands the token back
DpllDeconstruct(d, I) ==
    /\ Running
    /\ dpll[d].st = "config"
    /\ dpll[d].cfg.I = I
    /\ dpllTok' = [dpllTok EXCEPT ![d].free = @ + 1]
    /\ dpll' = [dpll EXCEPT ![d] = NoUnit]

\* Dpll::from_pclk
DpllFromPclk(d, freq) ==
    /\ pclkOwner[d] = "caller"
    /\ DpllConstruct(d, NewDpll("Pclk", freq, 1))
    /\ pclkOwner' = [pclkOwner EXCEPT ![d] = "dpll"]
    /\ last' = Returned("DpllFromPclk", d)
    /\ UNCHANGED <<halted, overflow_checks, pc, dpllreg, dpllsync, srcCount, gclkVars>>

\* Dpll::<D, G>::free
DpllFreePclk(d) ==
    /\ DpllDeconstruct(d, "Pclk")
    /\ pclkOwner' = [pclkOwner EXCEPT ![d] = "caller"]
    /\ last' = Returned("DpllFreePclk", d)
    /\ UNCHANGED <<halted, overflow_checks, pc, dpllreg, dpllsync, srcCount, gclkVars>>

\* Variant of DpllFromXosc32k that returns the oscillator as it was given
DpllFromXosc32kNoInc(d, freq) ==
    /\ srcCount["Xosc32k"] < MaxCount
    /\ DpllConstruct(d, NewDpll("Xosc32k", freq, 1))
    /\ last' = Returned("DpllFromXosc32k", d)
    /\ UNCHANGED <<halted, overflow_checks, pc, dpllreg, dpllsync, srcCount, pclkOwner,
                   gclkVars>>

\* Dpll::from_xosc32k
DpllFromXosc32k(d, freq) ==
    /\ srcCount["Xosc32k"] < MaxCount
    /\ DpllConstruct(d, NewDpll("Xosc32k", freq, 1))
    /\ srcCount' = [srcCount EXCEPT !["Xosc32k"] = @ + 1]
    /\ last' = Returned("DpllFromXosc32k", d)
    /\ UNCHANGED <<halted, overflow_checks, pc, dpllreg, dpllsync, pclkOwner, gclkVars>>

\* Dpll::<D, Xosc32kId>::free
DpllFreeXosc32k(d) ==
    /\ srcCount["Xosc32k"] > 0
    /\ DpllDeconstruct(d, "Xosc32k")
    /\ srcCount' = [srcCount EXCEPT !["Xosc32k"] = @ - 1]
    /\ last' = Returned("DpllFreeXosc32k", d)
    /\ UNCHANGED <<halted, overflow_checks, pc, dpllreg, dpllsync, pclkOwner, gclkVars>>

\* Dpll::from_xosc0, Dpll::from_xosc1
DpllFromXosc(d, xosc, freq) ==
    /\ xosc \in {"Xosc0", "Xosc1"}
    /\ srcCount[xosc] < MaxCount
    /\ DpllConstruct(d, NewDpll(xosc, freq, 2))
    /\ srcCount' = [srcCount EXCEPT ![xosc] = @ + 1]
    /\ last' = Returned("DpllFromXosc", d)
    /\ UNCHANGED <<halted, overflow_checks, pc, dpllreg, dpllsync, pclkOwner, gclkVars>>

\* Dpll::<D, XoscNId>::free
DpllFreeXosc(d, xosc) ==
    /\ xosc \in {"Xosc0", "Xosc1"}
    /\ srcCount[xosc] > 0
    /\ DpllDeconstruct(d, xosc)
    /\ srcCount' = [srcCount EXCEPT ![xosc] = @ - 1]
    /\ last' = Returned("DpllFreeXosc", d)
    /\ UNCHANGED <<halted, overflow_checks, pc, dpllreg, dpllsync, pclkOwner, gclkVars>>

\* Variant of DpllPanic: the call reports the failure as a value and hands
\* the Config back
DpllFailReturns(op, d, msg, arg) ==
    /\ last' = Panicked(op, d, msg, arg)
    /\ UNCHANGED <<halted, overflow_checks, pc, dpll, dpllreg, dpllsync, srcCount,
                   pclkOwner, dpllTok, gclkVars>>

\* panic!(msg): the call never returns and the Config moved into it is gone
DpllPanic(op, d, msg, arg) ==
    /\ halted' = TRUE
    /\ dpll' = [dpll EXCEPT ![d] = LostUnit]
    /\ last' = Panicked(op, d, msg, arg)
    /\ UNCHANGED <<overflow_checks, pc, dpllreg, dpllsync, srcCount, pclkOwner, dpllTok, gclkVars>>

\* A setter of the Config: self -> Self
DpllSet(op, d, c, arg) ==
    /\ dpll' = [dpll EXCEPT ![d].cfg = c]
    /\ last' = ReturnedOf(op, d, arg)
    /\ UNCHANGED <<halted, overflow_checks, pc, dpllreg, dpllsync, srcCount, pclkOwner, dpllTok, gclkVars>>

\* Dpll::set_prediv, offered for the Xosc0 and Xosc1 variants only
DpllSetPrediv(d, prediv) ==
    /\ Running
    /\ dpll[d].st = "config"
    /\ dpll[d].cfg.I \in {"Xosc0", "Xosc1"}
    /\ IF PredivValid(prediv)
         THEN DpllSet("DpllSetPrediv", d, [dpll[d].cfg EXCEPT !.prediv = prediv], prediv)
         ELSE DpllPanic("DpllSetPrediv", d,
                        "prediv must be an even number in the interval [2, 4096]", prediv)

\* Dpll::set_loop_div
DpllSetLoopDiv(d, int, frac) ==
    /\ Running
    /\ dpll[d].st = "config"
    /\ DpllSet("DpllSetLoopDiv", d, [dpll[d].cfg EXCEPT !.mult = int, !.frac = frac], 0)

\* Dpll::set_lock_bypass
DpllSetLockBypass(d, bypass) ==
    /\ Running
    /\ dpll[d].st = "config"
    /\ DpllSet("DpllSetLockBypass", d, [dpll[d].cfg EXCEPT !.lock_bypass = bypass], 0)

\* Dpll::set_wake_up_fast
DpllSetWakeUpFast(d, wuf) ==
    /\ Running
    /\ dpll[d].st = "config"
    /\ DpllSet("DpllSetWakeUpFast", d, [dpll[d].cfg EXCEPT !.wake_up_fast = wuf], 0)

\* Variant of DpllSetOnDemand that writes the flag to the register at once
DpllSetOnDemandWrites(d, on_demand) ==
    /\ Running
    /\ dpll[d].st = "config"
    /\ dpll' = [dpll EXCEPT ![d].cfg.on_demand = on_demand]
    /\ dpllreg' = [dpllreg EXCEPT ![d].ondemand = on_demand]
    /\ last' = Returned("DpllSetOnDemand", d)
    /\ UNCHANGED <<halted, overflow_checks, pc, dpllsync, srcCount, pclkOwner, dpllTok, gclkVars>>

\* Dpll::set_on_demand
DpllSetOnDemand(d, on_demand) ==
    /\ Running
    /\ dpll[d].st = "config"
    /\ DpllSet("DpllSetOnDemand", d, [dpll[d].cfg EXCEPT !.on_demand = on_demand], 0)

\* A step inside Dpll::enable of unit d, from the position at to the
\* position next
DpllEnableStep(d, at, next) ==
    /\ ~halted
    /\ pc = [op |-> "DpllEnable", unit |-> d, at |-> at]
    /\ pc' = [pc EXCEPT !.at = next]
    /\ UNCHANGED <<halted, overflow_checks, last, dpll, srcCount, pclkOwner, dpllTok, gclkVars>>

\* Variant of DpllEnable that sets the enable bit with its first write
DpllEnableBitFirst(d) ==
    /\ Running
    /\ dpll[d].st = "config"
    /\ LET c == dpll[d].cfg IN
       IF ~InputFreqValid(c)
         THEN DpllPanic("DpllEnable", d, "Invalid DPLL input frequency", 0)
       ELSE IF overflow_checks /\ Overflows(c)
         THEN DpllPanic("DpllEnable", d, "attempt to multiply with overflow", 0)
       ELSE IF ~OutputFreqValid(c)
         THEN DpllPanic("DpllEnable", d, "Invalid DPLL output frequency", 0)
         ELSE /\ dpllreg' = [dpllreg EXCEPT ![d].refclk = Refclk(c.I), ![d].enable = TRUE]
              /\ dpll' = [dpll EXCEPT ![d].st = "enabling"]
              /\ pc' = [op |-> "DpllEnable", unit |-> d,
                        at |-> IF c.I \in {"Xosc0", "Xosc1"} THEN "source_div"
                                                             ELSE "loop_div"]
              /\ UNCHANGED <<halted, overflow_checks, last, dpllsync, srcCount, pclkOwner,
                             dpllTok, gclkVars>>

\* Dpll::enable as far as its first write: the two assertions, then
\* set_source_clock; set_source_div follows for the Xosc variants only
DpllEnable(d) ==
    /\ Running
    /\ dpll[d].st = "config"
    /\ LET c == dpll[d].cfg IN
       IF ~InputFreqValid(c)
         THEN DpllPanic("DpllEnable", d, "Invalid DPLL input frequency", 0)
       ELSE IF overflow_checks /\ Overflows(c)
         THEN DpllPanic("DpllEnable", d, "attempt to multiply with overflow", 0)
       ELSE IF ~OutputFreqValid(c)
         THEN DpllPanic("DpllEnable", d, "Invalid DPLL output frequency", 0)
         ELSE /\ dpllreg' = [dpllreg EXCEPT ![d].refclk = Refclk(c.I)]
              /\ dpll' = [dpll EXCEPT ![d].st = "enabling"]
              /\ pc' = [op |-> "DpllEnable", unit |-> d,
                        at |-> IF c.I \in {"Xosc0", "Xosc1"} THEN "source_div"
                                                             ELSE "loop_div"]
              /\ UNCHANGED <<halted, overflow_checks, last, dpllsync, srcCount, pclkOwner,
                             dpllTok, gclkVars>>

\* Dpll::enable, Xosc variants: set_source_div(self.prediv / 2 - 1)
DpllEnableSourceDiv(d) ==
    /\ DpllEnableStep(d, "source_div", "loop_div")
    /\ dpllreg' = [dpllreg EXCEPT ![d].div = SourceDivField(dpll[d].cfg.prediv)]
    /\ UNCHANGED dpllsync

\* Dpll::enable: the DPLLRATIO write of DpllToken::set_loop_div, which then
\* waits for DPLLSYNCBUSY.DPLLRATIO
DpllEnableLoopDiv(d) ==
    /\ DpllEnableStep(d, "loop_div", "dpllratio")
    /\ dpllreg' = [dpllreg EXCEPT ![d].ldr = LdrField(dpll[d].cfg.mult),
                                  ![d].ldrfrac = LdrFracField(dpll[d].cfg.frac)]
    /\ dpllsync' = [dpllsync EXCEPT ![d].dpllratio = TRUE]

\* Dpll::enable once DPLLSYNCBUSY.DPLLRATIO is clear: set_lock_bypass
DpllEnableRatioSynced(d) ==
    /\ DpllEnableStep(d, "dpllratio", "wake_up_fast")
    /\ ~dpllsync[d].dpllratio
    /\ dpllreg' = [dpllreg EXCEPT ![d].lbypass = dpll[d].cfg.lock_bypass]
    /\ UNCHANGED dpllsync

\* Dpll::enable: set_wake_up_fast
DpllEnableWakeUpFast(d) ==
    /\ DpllEnableStep(d, "wake_up_fast", "on_demand")
    /\ dpllreg' = [dpllreg EXCEPT ![d].wuf = dpll[d].cfg.wake_up_fast]
    /\ UNCHANGED dpllsync

\* Dpll::enable: set_on_demand
DpllEnableOnDemand(d) ==
    /\ DpllEnableStep(d, "on_demand", "enable_bit")
    /\ dpllreg' = [dpllreg EXCEPT ![d].ondemand = dpll[d].cfg.on_demand]
    /\ UNCHANGED dpllsync

\* Dpll::enable: the ENABLE write of DpllToken::enable, which then waits for
\* DPLLSYNCBUSY.ENABLE
DpllEnableBit(d) ==
    /\ DpllEnableStep(d, "enable_bit", "enable")
    /\ dpllreg' = [dpllreg EXCEPT ![d].enable = TRUE]
    /\ dpllsync' = [dpllsync EXCEPT ![d].enable = TRUE]

\* Dpll::enable once DPLLSYNCBUSY.ENABLE is clear: Enabled::new(self)
DpllEnableSynced(d) ==
    /\ ~halted
    /\ pc = [op |-> "DpllEnable", unit |-> d, at |-> "enable"]
    /\ ~dpllsync[d].enable
    /\ dpll' = [dpll EXCEPT ![d].st = "enabled", ![d].count = 0]
    /\ pc' = Idle
    /\ last' = Returned("DpllEnable", d)
    /\ UNCHANGED <<halted, overflow_checks, dpllreg, dpllsync, srcCount, pclkOwner, dpllTok, gclkVars>>

\* Variant of CanDisableDpll for every N
CanDisableDpllAnyCount(u) == u.st = "enabled"

\* EnabledDpll<D, I>::disable exists for N = U0 only
CanDisableDpll(u) == u.st = "enabled" /\ u.count = 0

\* EnabledDpll::disable up to the busy-wait: the ENABLE write of
\* DpllToken::disable
DpllDisable(d) ==
    /\ Running
    /\ CanDisableDpll(dpll[d])
    /\ dpllreg' = [dpllreg EXCEPT ![d].enable = FALSE]
    /\ dpllsync' = [dpllsync EXCEPT ![d].enable = TRUE]
    /\ dpll' = [dpll EXCEPT ![d].st = "disabling"]
    /\ pc' = [op |-> "DpllDisable", unit |-> d, at |-> "enable"]
    /\ UNCHANGED <<halted, overflow_checks, last, srcCount, pclkOwner, dpllTok, gclkVars>>

\* Variant of DpllDisableSynced that also releases the driving oscillator
DpllDisableSyncedUnlocks(d) ==
    /\ ~halted
    /\ pc = [op |-> "DpllDisable", unit |-> d, at |-> "enable"]
    /\ ~dpllsync[d].enable
    /\ dpll' = [dpll EXCEPT ![d].st = "config"]
    /\ srcCount' = [o \in Oscillators |->
                      IF o = dpll[d].cfg.I THEN srcCount[o] - 1 ELSE srcCount[o]]
    /\ pc' = Idle
    /\ last' = Returned("DpllDisable", d)
    /\ UNCHANGED <<halted, overflow_checks, dpllreg, dpllsync, pclkOwner, dpllTok, gclkVars>>

\* Variant of DpllDisableSynced that returns a Config with the settings of
\* a new one
DpllDisableSyncedFresh(d) ==
    /\ ~halted
    /\ pc = [op |-> "DpllDisable", unit |-> d, at |-> "enable"]
    /\ ~dpllsync[d].enable
    /\ dpll' = [dpll EXCEPT ![d].st = "config",
                            ![d].cfg = NewDpll(@.I, @.src_freq, @.prediv)]
    /\ pc' = Idle
    /\ last' = Returned("DpllDisable", d)
    /\ UNCHANGED <<halted, overflow_checks, dpllreg, dpllsync, srcCount, pclkOwner,
                   dpllTok, gclkVars>>

\* Variant of DpllDisableSynced that returns without polling the sync bit
DpllDisableSyncedNoWait(d) ==
    /\ ~halted
    /\ pc = [op |-> "DpllDisable", unit |-> d, at |-> "enable"]
    /\ dpll' = [dpll EXCEPT ![d].st = "config"]
    /\ pc' = Idle
    /\ last' = Returned("DpllDisable", d)
    /\ UNCHANGED <<halted, overflow_checks, dpllreg, dpllsync, srcCount, pclkOwner, dpllTok, gclkVars>>

\* EnabledDpll::disable once DPLLSYNCBUSY.ENABLE is clear: returns self.0
DpllDisableSynced(d) ==
    /\ ~halted
    /\ pc = [op |-> "DpllDisable", unit |-> d, at |-> "enable"]
    /\ ~dpllsync[d].enable
    /\ dpll' = [dpll EXCEPT ![d].st = "config"]
    /\ pc' = Idle
    /\ last' = Returned("DpllDisable", d)
    /\ UNCHANGED <<halted, overflow_checks, dpllreg, dpllsync, srcCount, pclkOwner, dpllTok, gclkVars>>

\* Increment for Enabled<Dpll, N>: a consumer locks onto the enabled DPLL
DpllInc(d) ==
    /\ Running
    /\ dpll[d].st = "enabled"
    /\ dpll[d].count < MaxCount
    /\ dpll' = [dpll EXCEPT ![d].count = @ + 1]
    /\ last' = Returned("DpllInc", d)
    /\ UNCHANGED <<halted, overflow_checks, pc, dpllreg, dpllsync, srcCount, pclkOwner, dpllTok, gclkVars>>

\* Decrement for Enabled<Dpll, N>: a consumer releases the enabled DPLL
DpllDec(d) ==
    /\ Running
    /\ dpll[d].st = "enabled"
    /\ dpll[d].count > 0
    /\ dpll' = [dpll EXCEPT ![d].count = @ - 1]
    /\ last' = Returned("DpllDec", d)
    /\ UNCHANGED <<halted, overflow_checks, pc, dpllreg, dpllsync, srcCount, pclkOwner, dpllTok, gclkVars>>

\* The hardware completes the synchronisation of a DPLLRATIO write
HwSyncDpllRatio(d) ==
    /\ dpllsync[d].dpllratio
    /\ dpllsync' = [dpllsync EXCEPT ![d].dpllratio = FALSE]
    /\ UNCHANGED <<halted, overflow_checks, pc, last, dpll, dpllreg, srcCount, pclkOwner, dpllTok, gclkVars>>

\* The hardware completes the synchronisation of a DPLLCTRLA.ENABLE write
HwSyncDpllEnable(d) ==
    /\ dpllsync[d].enable
    /\ dpllsync' = [dpllsync EXCEPT ![d].enable = FALSE]
    /\ UNCHANGED <<halted, overflow_checks, pc, last, dpll, dpllreg, srcCount, pclkOwner, dpllTok, gclkVars>>

\* Err(nb::Error::WouldBlock)
WouldBlock(op, unit) ==
    [op |-> op, unit |-> unit, outcome |-> "WouldBlock", msg |-> "", arg |-> 0]

\* EnabledDpll::wait_until_ready over DpllToken::wait_until_ready, for every
\* N: &self, a read of DPLLSTATUS.CLKRDY
DpllWaitUntilReady(d) ==
    /\ Running
    /\ dpll[d].st = "enabled"
    /\ last' = IF dpllreg[d].clkrdy THEN Returned("DpllWaitUntilReady", d)
                                    ELSE WouldBlock("DpllWaitUntilReady", d)
    /\ UNCHANGED <<halted, overflow_checks, pc, srcCount, dpllVars, gclkVars>>

\* Variant of DpllWaitUntilLocked that reads the clock-ready bit
DpllWaitUntilLockedReadsReady(d) ==
    /\ Running
    /\ dpll[d].st = "enabled"
    /\ last' = IF dpllreg[d].clkrdy THEN Returned("DpllWaitUntilLocked", d)
                                    ELSE WouldBlock("DpllWaitUntilLocked", d)
    /\ UNCHANGED <<halted, overflow_checks, pc, srcCount, dpllVars, gclkVars>>

\* EnabledDpll::wait_until_locked over DpllToken::wait_until_locked, for
\* every N: &self, a read of DPLLSTATUS.LOCK
DpllWaitUntilLocked(d) ==
    /\ Running
    /\ dpll[d].st = "enabled"
    /\ last' = IF dpllreg[d].lock THEN Returned("DpllWaitUntilLocked", d)
                                  ELSE WouldBlock("DpllWaitUntilLocked", d)
    /\ UNCHANGED <<halted, overflow_checks, pc, srcCount, dpllVars, gclkVars>>

\* The hardware sets and clears DPLLSTATUS.CLKRDY and DPLLSTATUS.LOCK; both
\* are clear while the DPLL is not enabled
HwDpllStatus(d, rdy, lck) ==
    /\ (rdy \/ lck) => dpllreg[d].enable
    /\ <<rdy, lck>> # <<dpllreg[d].clkrdy, dpllreg[d].lock>>
    /\ dpllreg' = [dpllreg EXCEPT ![d].clkrdy = rdy, ![d].lock = lck]
    /\ UNCHANGED <<halted, overflow_checks, pc, last, dpll, dpllsync, srcCount, pclkOwner,
                   dpllTok, gclkVars>>

----------------------------------------------------------------------------
(* GCLK: pure functions *)

\* The variants of GclkDiv (Div, Div2Pow8, Div2Pow9) and of Gclk1Div
\* (Div, Div2Pow16, Div2Pow17)
Div(n) == [kind |-> "Div", n |-> n]
Div2Pow8 == [kind |-> "Div2Pow8", n |-> 0]
Div2Pow9 == [kind |-> "Div2Pow9", n |-> 0]
Div2Pow16 == [kind |-> "Div2Pow16", n |-> 0]
Div2Pow17 == [kind |-> "Div2Pow17", n |-> 0]

\* Gen1 takes a Gclk1Div (Div(u16)), the NotGen1 generators a GclkDiv (Div(u8))
IsDivOf(g, div) ==
    IF g = 1
      THEN \/ div.kind = "Div" /\ div.n \in 0 .. (2^16 - 1)
           \/ div.kind \in {"Div2Pow16", "Div2Pow17"}
      ELSE \/ div.kind = "Div" /\ div.n \in 0 .. (2^8 - 1)
           \/ div.kind \in {"Div2Pow8", "Div2Pow9"}

\* Variant of as_u32 that reports Div(n) as n + 1
as_u32_PlusOne(div) ==
    CASE div.kind = "Div" -> div.n + 1
      [] div.kind = "Div2Pow8" -> 256
      [] div.kind = "Div2Pow9" -> 512
      [] div.kind = "Div2Pow16" -> 65536
      [] div.kind = "Div2Pow17" -> 131072

\* Variant of as_u32 that reports Div2Pow17 as 512
as_u32_Pow17Is512(div) ==
    CASE div.kind = "Div" -> div.n
      [] div.kind = "Div2Pow8" -> 256
      [] div.kind = "Div2Pow9" -> 512
      [] div.kind = "Div2Pow16" -> 65536
      [] div.kind = "Div2Pow17" -> 512

\* GclkDividerT::as_u32
as_u32(div) ==
    CASE div.kind = "Div" -> div.n
      [] div.kind = "Div2Pow8" -> 256
      [] div.kind = "Div2Pow9" -> 512
      [] div.kind = "Div2Pow16" -> 65536
      [] div.kind = "Div2Pow17" -> 131072

\* Variant of DivField that writes the exponent itself in the doubling mode
DivFieldExponent(div) ==
    CASE div.kind = "Div" -> div.n
      [] div.kind = "Div2Pow8" -> 8
      [] div.kind = "Div2Pow9" -> 9
      [] div.kind = "Div2Pow16" -> 16
      [] div.kind = "Div2Pow17" -> 17

\* Registers::set_div: the DIVSEL and DIV fields written
DivselField(div) == IF div.kind = "Div" THEN "DIV1" ELSE "DIV2"
DivField(div) ==
    CASE div.kind = "Div" -> div.n
      [] div.kind = "Div2Pow8" -> 7
      [] div.kind = "Div2Pow9" -> 8
      [] div.kind = "Div2Pow16" -> 15
      [] div.kind = "Div2Pow17" -> 16

\* GclkSourceType::GCLK_SRC of a source type
GCLK_SRC(T) ==
    CASE T = "Gclk1" -> "GCLKGEN1"
      [] T = "Dfll" -> "DFLL"
      [] T = "Xosc0" -> "XOSC0"
      [] T = "Xosc1" -> "XOSC1"
      [] T = "Xosc32k" -> "XOSC32K"
      [] T = "Dpll0" -> "DPLL0"
      [] T = "Dpll1" -> "DPLL1"

\* Variant of GclkConfigFreq without the arm for div = 0: 0 Hz
GclkConfigFreqZeroStops(c) == IF c.div = 0 THEN 0 ELSE c.freq \div c.div

\* GclkConfig::freq
GclkConfigFreq(c) == IF c.div = 0 THEN c.freq ELSE c.freq \div c.div

\* GclkSource<G> is implemented by Gclk1 for Gen0 and Gen2..Gen11 only
IsSourceOf(g, s) == s = "Gclk1" => g # 1

----------------------------------------------------------------------------
(* GCLK: state *)

NoGclkConfig == [src |-> "none", freq |-> 0, div |-> 0]
NoGclk == [st |-> "none", cfg |-> NoGclkConfig, count |-> 0]

\* GENCTRL[g] after reset: generator 0 runs from the DFLL
GclkRegReset(g) ==
    [src |-> IF g = 0 THEN "DFLL" ELSE "XOSC0", divsel |-> "DIV1", div |-> 0,
     idc |-> FALSE, oe |-> FALSE, oov |-> FALSE, genen |-> (g = 0)]

InitGclkVars ==
    /\ gclk = [g \in GenIds |-> NoGclk]
    /\ gclkreg = [g \in GenIds |-> GclkRegReset(g)]
    /\ gclksync = [g \in GenIds |-> FALSE]
    /\ gclkTok = [g \in GenIds |-> [issued |-> 0, free |-> 0]]

\* Live GclkToken instances of generator g
GclkLiveTokens(g) ==
    gclkTok[g].free + (IF gclk[g].st \in {"none", "lost"} THEN 0 ELSE 1)

\* Dpll as a Source: Hertz of an enabled DPLL (at most MaxOutputFreq)
DpllHertz(d) == LET f == DpllFreq(dpll[d].cfg) IN f.hi * 2^16 + f.lo

DpllOf(s) == IF s = "Dpll0" THEN 0 ELSE 1
IsDpll(s) == s \in {"Dpll0", "Dpll1"}

\* Source::freq of the source s; an oscillator runs at the frequency f
SourceFreq(s, f) ==
    CASE s = "Gclk1" -> GclkConfigFreq(gclk[1].cfg)
      [] IsDpll(s) -> DpllHertz(DpllOf(s))
      [] OTHER -> f

\* The source s exists as an enabled node and its counter is n
SourceCount(s) ==
    CASE s = "Gclk1" -> IF gclk[1].st = "active" THEN gclk[1].count ELSE -1
      [] IsDpll(s) -> IF dpll[DpllOf(s)].st = "enabled" THEN dpll[DpllOf(s)].count ELSE -1
      [] OTHER -> srcCount[s]

\* S: Lockable, S: Unlockable
CanLock(s) == SourceCount(s) >= 0 /\ SourceCount(s) < MaxCount
CanUnlock(s) == SourceCount(s) > 0

\* The counters after the sources in dec were unlocked and those in inc locked
Relock(gk, dec, inc) ==
    LET delta == (IF "Gclk1" \in inc THEN 1 ELSE 0) - (IF "Gclk1" \in dec THEN 1 ELSE 0)
    IN  /\ gclk' = [gk EXCEPT ![1].count = @ + delta]
        /\ dpll' = [d \in DpllIds |->
                      LET n == IF d = 0 THEN "Dpll0" ELSE "Dpll1" IN
                      [dpll[d] EXCEPT !.count =
                          @ + (IF n \in inc THEN 1 ELSE 0) - (IF n \in dec THEN 1 ELSE 0)]]
        /\ srcCount' = [o \in Oscillators |->
                          srcCount[o] + (IF o \in inc THEN 1 ELSE 0)
                                      - (IF o \in dec THEN 1 ELSE 0)]

----------------------------------------------------------------------------
(* GCLK: operations *)

\* Variant of TokensNew with a token for Gen0 as well
TokensNewAll(tok) ==
    [g \in GenIds |-> [issued |-> tok[g].issued + 1, free |-> tok[g].free + 1]]

\* Tokens::new: one token for each of Gen1..Gen11
TokensNew(tok) ==
    [g \in GenIds |->
        IF g >= 1 THEN [issued |-> tok[g].issued + 1, free |-> tok[g].free + 1]
                  ELSE tok[g]]

\* Gclk0::init over GclkConfig::<Gen0, Fll>::init: a token of its own,
\* div 1, count One, no register access
Gclk0Init(freq) ==
    [st |-> "active", cfg |-> [src |-> "Dfll", freq |-> freq, div |-> 1], count |-> 1]

\* GclkConfig::new up to the busy-wait: source.freq(), the SRC write of
\* Registers::set_source
GclkNew(g, s, f) ==
    /\ Running
    /\ gclkTok[g].free > 0
    /\ gclk[g].st = "none"
    /\ IsSourceOf(g, s)
    /\ CanLock(s)
    /\ gclkTok' = [gclkTok EXCEPT ![g].free = @ - 1]
    /\ gclkreg' = [gclkreg EXCEPT ![g].src = GCLK_SRC(s)]
    /\ gclksync' = [gclksync EXCEPT ![g] = TRUE]
    /\ gclk' = [gclk EXCEPT ![g].st = "constructing"]
    /\ pc' = [op |-> "GclkNew", unit |-> g, at |-> "genctrl",
              src |-> s, freq |-> SourceFreq(s, f)]
    /\ UNCHANGED <<halted, overflow_checks, last, srcCount, dpllVars>>

\* Variant of NewGclk that keeps the divider the unit had before
NewGclkKeepDiv(old, src, freq) ==
    [st |-> "config", cfg |-> [src |-> src, freq |-> freq, div |-> old.cfg.div],
     count |-> old.count]

\* The Config that GclkConfig::new builds: div 1
NewGclk(old, src, freq) ==
    [st |-> "config", cfg |-> [src |-> src, freq |-> freq, div |-> 1],
     count |-> old.count]

\* GclkConfig::new (also within swap) once SYNCBUSY is clear: the Config and
\* source.lock()
GclkNewSynced(g) ==
    /\ ~halted
    /\ pc.op \in {"GclkNew", "GclkSwap"}
    /\ pc.unit = g
    /\ ~gclksync[g]
    /\ Relock([gclk EXCEPT ![g] = NewGclk(gclk[g], pc.src, pc.freq)], {}, {pc.src})
    /\ pc' = Idle
    /\ last' = Returned(pc.op, g)
    /\ UNCHANGED <<halted, overflow_checks, dpllreg, dpllsync, pclkOwner, dpllTok,
                   gclkreg, gclksync, gclkTok>>

\* Variant of GclkFree that returns the source still locked
GclkFreeKeepsLock(g) ==
    /\ Running
    /\ gclk[g].st = "config"
    /\ CanUnlock(gclk[g].cfg.src)
    /\ Relock([gclk EXCEPT ![g] = NoGclk], {}, {})
    /\ gclkTok' = [gclkTok EXCEPT ![g].free = @ + 1]
    /\ last' = Returned("GclkFree", g)
    /\ UNCHANGED <<halted, overflow_checks, pc, dpllreg, dpllsync, pclkOwner, dpllTok,
                   gclkreg, gclksync>>

\* GclkConfig::free: the token and source.unlock()
GclkFree(g) ==
    /\ Running
    /\ gclk[g].st = "config"
    /\ CanUnlock(gclk[g].cfg.src)
    /\ Relock([gclk EXCEPT ![g] = NoGclk], {gclk[g].cfg.src}, {})
    /\ gclkTok' = [gclkTok EXCEPT ![g].free = @ + 1]
    /\ last' = Returned("GclkFree", g)
    /\ UNCHANGED <<halted, overflow_checks, pc, dpllreg, dpllsync, pclkOwner, dpllTok,
                   gclkreg, gclksync>>

\* Variant of GclkSwap that leaves the old source locked
GclkSwapKeepsOld(g, s, f) ==
    /\ Running
    /\ gclk[g].st = "config"
    /\ s # gclk[g].cfg.src
    /\ IsSourceOf(g, s)
    /\ CanUnlock(gclk[g].cfg.src)
    /\ CanLock(s)
    /\ Relock([gclk EXCEPT ![g].st = "constructing"], {}, {})
    /\ gclkreg' = [gclkreg EXCEPT ![g].src = GCLK_SRC(s)]
    /\ gclksync' = [gclksync EXCEPT ![g] = TRUE]
    /\ pc' = [op |-> "GclkSwap", unit |-> g, at |-> "genctrl",
              src |-> s, freq |-> SourceFreq(s, f)]
    /\ UNCHANGED <<halted, overflow_checks, last, dpllreg, dpllsync, pclkOwner, dpllTok,
                   gclkTok>>

\* GclkConfig::swap up to the busy-wait: self.free(old), then
\* GclkConfig::new(token, new) as far as its SRC write
GclkSwap(g, s, f) ==
    /\ Running
    /\ gclk[g].st = "config"
    /\ s # gclk[g].cfg.src
    /\ IsSourceOf(g, s)
    /\ CanUnlock(gclk[g].cfg.src)
    /\ CanLock(s)
    /\ Relock([gclk EXCEPT ![g].st = "constructing"], {gclk[g].cfg.src}, {})
    /\ gclkreg' = [gclkreg EXCEPT ![g].src = GCLK_SRC(s)]
    /\ gclksync' = [gclksync EXCEPT ![g] = TRUE]
    /\ pc' = [op |-> "GclkSwap", unit |-> g, at |-> "genctrl",
              src |-> s, freq |-> SourceFreq(s, f)]
    /\ UNCHANGED <<halted, overflow_checks, last, dpllreg, dpllsync, pclkOwner, dpllTok,
                   gclkTok>>

\* GclkConfig::div up to the busy-wait: the DIVSEL/DIV write of
\* Registers::set_div
GclkSetDiv(g, div) ==
    /\ Running
    /\ gclk[g].st = "config"
    /\ IsDivOf(g, div)
    /\ gclkreg' = [gclkreg EXCEPT ![g].divsel = DivselField(div), ![g].div = DivField(div)]
    /\ gclksync' = [gclksync EXCEPT ![g] = TRUE]
    /\ pc' = [op |-> "GclkSetDiv", unit |-> g, at |-> "genctrl", div |-> div]
    /\ UNCHANGED <<halted, overflow_checks, last, srcCount, dpllVars, gclk, gclkTok>>

\* GclkConfig::div once SYNCBUSY is clear: self.div = div.as_u32()
GclkSetDivSynced(g) ==
    /\ ~halted
    /\ pc.op = "GclkSetDiv"
    /\ pc.unit = g
    /\ ~gclksync[g]
    /\ gclk' = [gclk EXCEPT ![g].cfg.div = as_u32(pc.div)]
    /\ pc' = Idle
    /\ last' = Returned("GclkSetDiv", g)
    /\ UNCHANGED <<halted, overflow_checks, srcCount, dpllVars, gclkreg, gclksync, gclkTok>>

\* Variant of GclkImproveDutyCycle that an active generator offers as well
GclkImproveDutyCycleAnyState(g, flag) ==
    /\ Running
    /\ gclk[g].st \in {"config", "active"}
    /\ gclkreg' = [gclkreg EXCEPT ![g].idc = flag]
    /\ gclksync' = [gclksync EXCEPT ![g] = TRUE]
    /\ last' = Returned("GclkImproveDutyCycle", g)
    /\ UNCHANGED <<halted, overflow_checks, pc, srcCount, dpllVars, gclk, gclkTok>>

\* GclkConfig::improve_duty_cycle: the IDC write, without a busy-wait
GclkImproveDutyCycle(g, flag) ==
    /\ Running
    /\ gclk[g].st = "config"
    /\ gclkreg' = [gclkreg EXCEPT ![g].idc = flag]
    /\ gclksync' = [gclksync EXCEPT ![g] = TRUE]
    /\ last' = Returned("GclkImproveDutyCycle", g)
    /\ UNCHANGED <<halted, overflow_checks, pc, srcCount, dpllVars, gclk, gclkTok>>

\* GclkConfig::enable up to the busy-wait: the GENEN write of Registers::enable
GclkEnable(g) ==
    /\ Running
    /\ gclk[g].st = "config"
    /\ gclkreg' = [gclkreg EXCEPT ![g].genen = TRUE]
    /\ gclksync' = [gclksync EXCEPT ![g] = TRUE]
    /\ gclk' = [gclk EXCEPT ![g].st = "enabling"]
    /\ pc' = [op |-> "GclkEnable", unit |-> g, at |-> "genctrl"]
    /\ UNCHANGED <<halted, overflow_checks, last, srcCount, dpllVars, gclkTok>>

\* Variant of GclkEnableSynced that does not wait for SYNCBUSY
GclkEnableSyncedNoWait(g) ==
    /\ ~halted
    /\ pc = [op |-> "GclkEnable", unit |-> g, at |-> "genctrl"]
    /\ gclk' = [gclk EXCEPT ![g].st = "active", ![g].count = 0]
    /\ pc' = Idle
    /\ last' = Returned("GclkEnable", g)
    /\ UNCHANGED <<halted, overflow_checks, srcCount, dpllVars, gclkreg, gclksync, gclkTok>>

\* GclkConfig::enable once SYNCBUSY is clear: Gclk::create(self, Zero::new())
GclkEnableSynced(g) ==
    /\ ~halted
    /\ pc = [op |-> "GclkEnable", unit |-> g, at |-> "genctrl"]
    /\ ~gclksync[g]
    /\ gclk' = [gclk EXCEPT ![g].st = "active", ![g].count = 0]
    /\ pc' = Idle
    /\ last' = Returned("GclkEnable", g)
    /\ UNCHANGED <<halted, overflow_checks, srcCount, dpllVars, gclkreg, gclksync, gclkTok>>

\* Variant of CanDisableGclk for every N
CanDisableGclkAnyCount(g, u) == g # 0 /\ u.st = "active"

\* Variant of CanDisableGclk that includes generator 0
CanDisableGclkAnyGen(g, u) == u.st = "active" /\ u.count = 0

\* Gclk<G, T>::disable exists for G: NotGen0 and N = Zero only
CanDisableGclk(g, u) == g # 0 /\ u.st = "active" /\ u.count = 0

\* Gclk::disable up to the busy-wait: the GENEN write of Registers::disable
GclkDisable(g) ==
    /\ Running
    /\ CanDisableGclk(g, gclk[g])
    /\ gclkreg' = [gclkreg EXCEPT ![g].genen = FALSE]
    /\ gclksync' = [gclksync EXCEPT ![g] = TRUE]
    /\ gclk' = [gclk EXCEPT ![g].st = "disabling"]
    /\ pc' = [op |-> "GclkDisable", unit |-> g, at |-> "genctrl"]
    /\ UNCHANGED <<halted, overflow_checks, last, srcCount, dpllVars, gclkTok>>

\* Gclk::disable once SYNCBUSY is clear: returns self.config
GclkDisableSynced(g) ==
    /\ ~halted
    /\ pc = [op |-> "GclkDisable", unit |-> g, at |-> "genctrl"]
    /\ ~gclksync[g]
    /\ gclk' = [gclk EXCEPT ![g].st = "config"]
    /\ pc' = Idle
    /\ last' = Returned("GclkDisable", g)
    /\ UNCHANGED <<halted, overflow_checks, srcCount, dpllVars, gclkreg, gclksync, gclkTok>>

\* unsafe Gclk::disable_unchecked, for every G and N, up to the busy-wait:
\* the GENEN write of Registers::disable
GclkDisableUnchecked(g) ==
    /\ Running
    /\ gclk[g].st = "active"
    /\ gclkreg' = [gclkreg EXCEPT ![g].genen = FALSE]
    /\ gclksync' = [gclksync EXCEPT ![g] = TRUE]
    /\ gclk' = [gclk EXCEPT ![g].st = "disabling"]
    /\ pc' = [op |-> "GclkDisableUnchecked", unit |-> g, at |-> "genctrl"]
    /\ UNCHANGED <<halted, overflow_checks, last, srcCount, dpllVars, gclkTok>>

\* unsafe Gclk::disable_unchecked once SYNCBUSY is clear: returns
\* self.config; the count of the Gclk is dropped with it
GclkDisableUncheckedSynced(g) ==
    /\ ~halted
    /\ pc = [op |-> "GclkDisableUnchecked", unit |-> g, at |-> "genctrl"]
    /\ ~gclksync[g]
    /\ gclk' = [gclk EXCEPT ![g].st = "config", ![g].count = 0]
    /\ pc' = Idle
    /\ last' = Returned("GclkDisableUnchecked", g)
    /\ UNCHANGED <<halted, overflow_checks, srcCount, dpllVars, gclkreg, gclksync, gclkTok>>

\* Lockable for Gclk<G, T, N>, N: Increment
GclkLock(g) ==
    /\ Running
    /\ gclk[g].st = "active"
    /\ gclk[g].count < MaxCount
    /\ gclk' = [gclk EXCEPT ![g].count = @ + 1]
    /\ last' = Returned("GclkLock", g)
    /\ UNCHANGED <<halted, overflow_checks, pc, srcCount, dpllVars, gclkreg, gclksync, gclkTok>>

\* Unlockable for Gclk<G, T, N>, N: Decrement
GclkUnlock(g) ==
    /\ Running
    /\ gclk[g].st = "active"
    /\ gclk[g].count > 0
    /\ gclk' = [gclk EXCEPT ![g].count = @ - 1]
    /\ last' = Returned("GclkUnlock", g)
    /\ UNCHANGED <<halted, overflow_checks, pc, srcCount, dpllVars, gclkreg, gclksync, gclkTok>>

\* Gclk::enable_gclk_out up to the busy-wait: the OE and OOV write
GclkEnableOut(g, pol) ==
    /\ Running
    /\ gclk[g].st = "active"
    /\ gclkreg' = [gclkreg EXCEPT ![g].oe = TRUE, ![g].oov = pol]
    /\ gclksync' = [gclksync EXCEPT ![g] = TRUE]
    /\ pc' = [op |-> "GclkEnableOut", unit |-> g, at |-> "genctrl", pol |-> pol]
    /\ UNCHANGED <<halted, overflow_checks, last, srcCount, dpllVars, gclk, gclkTok>>

\* Variant of GclkDisableOut that also clears the output-off value
GclkDisableOutClearsOov(g) ==
    /\ Running
    /\ gclk[g].st = "active"
    /\ gclkreg' = [gclkreg EXCEPT ![g].oe = FALSE, ![g].oov = FALSE]
    /\ gclksync' = [gclksync EXCEPT ![g] = TRUE]
    /\ pc' = [op |-> "GclkDisableOut", unit |-> g, at |-> "genctrl"]
    /\ UNCHANGED <<halted, overflow_checks, last, srcCount, dpllVars, gclk, gclkTok>>

\* Gclk::disable_gclk_out up to the busy-wait: the OE write
GclkDisableOut(g) ==
    /\ Running
    /\ gclk[g].st = "active"
    /\ gclkreg' = [gclkreg EXCEPT ![g].oe = FALSE]
    /\ gclksync' = [gclksync EXCEPT ![g] = TRUE]
    /\ pc' = [op |-> "GclkDisableOut", unit |-> g, at |-> "genctrl"]
    /\ UNCHANGED <<halted, overflow_checks, last, srcCount, dpllVars, gclk, gclkTok>>

\* enable_gclk_out and disable_gclk_out once SYNCBUSY is clear
GclkOutSynced(g) ==
    /\ ~halted
    /\ pc.op \in {"GclkEnableOut", "GclkDisableOut"}
    /\ pc.unit = g
    /\ ~gclksync[g]
    /\ pc' = Idle
    /\ last' = Returned(pc.op, g)
    /\ UNCHANGED <<halted, overflow_checks, srcCount, dpllVars, gclkVars>>

\* unsafe Gclk::div on an active generator up to the busy-wait: the
\* DIVSEL/DIV write of Registers::set_div
GclkDivUnsafe(g, div) ==
    /\ Running
    /\ gclk[g].st = "active"
    /\ IsDivOf(g, div)
    /\ gclkreg' = [gclkreg EXCEPT ![g].divsel = DivselField(div), ![g].div = DivField(div)]
    /\ gclksync' = [gclksync EXCEPT ![g] = TRUE]
    /\ pc' = [op |-> "GclkDivUnsafe", unit |-> g, at |-> "genctrl", div |-> div]
    /\ UNCHANGED <<halted, overflow_checks, last, srcCount, dpllVars, gclk, gclkTok>>

\* unsafe Gclk::div once SYNCBUSY is clear: self.config.div = div.as_u32()
GclkDivUnsafeSynced(g) ==
    /\ ~halted
    /\ pc.op = "GclkDivUnsafe"
    /\ pc.unit = g
    /\ ~gclksync[g]
    /\ gclk' = [gclk EXCEPT ![g].cfg.div = as_u32(pc.div)]
    /\ pc' = Idle
    /\ last' = Returned("GclkDivUnsafe", g)
    /\ UNCHANGED <<halted, overflow_checks, srcCount, dpllVars, gclkreg, gclksync, gclkTok>>

\* unsafe Gclk::swap on an active generator up to the busy-wait:
\* self.config.swap(old, new) as far as the SRC write of GclkConfig::new
GclkSwapUnsafe(g, s, f) ==
    /\ Running
    /\ gclk[g].st = "active"
    /\ s # gclk[g].cfg.src
    /\ IsSourceOf(g, s)
    /\ CanUnlock(gclk[g].cfg.src)
    /\ CanLock(s)
    /\ Relock([gclk EXCEPT ![g].st = "swapping"], {gclk[g].cfg.src}, {})
    /\ gclkreg' = [gclkreg EXCEPT ![g].src = GCLK_SRC(s)]
    /\ gclksync' = [gclksync EXCEPT ![g] = TRUE]
    /\ pc' = [op |-> "GclkSwapUnsafe", unit |-> g, at |-> "genctrl",
              src |-> s, freq |-> SourceFreq(s, f)]
    /\ UNCHANGED <<halted, overflow_checks, last, dpllreg, dpllsync, pclkOwner, dpllTok,
                   gclkTok>>

\* Variant of GclkSwapUnsafeSynced that creates the Gclk with count Zero
GclkSwapUnsafeSyncedZero(g) ==
    /\ ~halted
    /\ pc.op = "GclkSwapUnsafe"
    /\ pc.unit = g
    /\ ~gclksync[g]
    /\ Relock([gclk EXCEPT ![g] = [NewGclk(gclk[g], pc.src, pc.freq)
                                      EXCEPT !.st = "active", !.count = 0]],
              {}, {pc.src})
    /\ pc' = Idle
    /\ last' = Returned("GclkSwapUnsafe", g)
    /\ UNCHANGED <<halted, overflow_checks, dpllreg, dpllsync, pclkOwner, dpllTok,
                   gclkreg, gclksync, gclkTok>>

\* unsafe Gclk::swap once SYNCBUSY is clear: the new Config, new.lock() and
\* Gclk::create(config, self.count)
GclkSwapUnsafeSynced(g) ==
    /\ ~halted
    /\ pc.op = "GclkSwapUnsafe"
    /\ pc.unit = g
    /\ ~gclksync[g]
    /\ Relock([gclk EXCEPT ![g] = [NewGclk(gclk[g], pc.src, pc.freq) EXCEPT !.st = "active"]],
              {}, {pc.src})
    /\ pc' = Idle
    /\ last' = Returned("GclkSwapUnsafe", g)
    /\ UNCHANGED <<halted, overflow_checks, dpllreg, dpllsync, pclkOwner, dpllTok,
                   gclkreg, gclksync, gclkTok>>

\* unsafe Gclk::improve_duty_cycle on an active generator: the IDC write,
\* without a busy-wait
GclkImproveDutyCycleUnsafe(g, flag) ==
    /\ Running
    /\ gclk[g].st = "active"
    /\ gclkreg' = [gclkreg EXCEPT ![g].idc = flag]
    /\ gclksync' = [gclksync EXCEPT ![g] = TRUE]
    /\ last' = Returned("GclkImproveDutyCycleUnsafe", g)
    /\ UNCHANGED <<halted, overflow_checks, pc, srcCount, dpllVars, gclk, gclkTok>>

\* The hardware completes the synchronisation of a GENCTRL[g] write
HwSyncGclk(g) ==
    /\ gclksync[g]
    /\ gclksync' = [gclksync EXCEPT ![g] = FALSE]
    /\ UNCHANGED <<halted, overflow_checks, pc, last, srcCount, dpllVars, gclk, gclkreg, gclkTok>>

----------------------------------------------------------------------------
(* Start-up *)

\* The frequency the DFLL runs at after reset
DfllFreq == 48000000

\* The clocks are retrieved once: the tokens of Gen1..Gen11 and of both
\* DPLLs are constructed, and Gclk0 exists running from the DFLL
RetrieveClocks ==
    /\ Running
    /\ \A g \in GenIds : gclkTok[g].issued = 0
    /\ \A d \in DpllIds : dpllTok[d].issued = 0
    /\ gclkTok' = [TokensNew(gclkTok) EXCEPT ![0].issued = @ + 1]
    /\ dpllTok' = DpllTokenNew(DpllTokenNew(dpllTok, 0), 1)
    /\ gclk' = [gclk EXCEPT ![0] = Gclk0Init(DfllFreq)]
    /\ srcCount' = [srcCount EXCEPT !["Dfll"] = @ + 1]
    /\ last' = Returned("RetrieveClocks", 0)
    /\ UNCHANGED <<halted, overflow_checks, pc, dpll, dpllreg, dpllsync, pclkOwner,
                   gclkreg, gclksync>>

----------------------------------------------------------------------------
(* Specifications *)

InitCommon ==
    /\ halted = FALSE
    /\ pc = Idle
    /\ last = NoCall
    /\ srcCount = [s \in Oscillators |-> 0]

Init ==
    /\ InitCommon
    /\ overflow_checks = FALSE
    /\ InitDpllVars
    /\ InitGclkVars

\* Construction and destruction of DPLL Configs
DpllBuild(Ds, PclkFreqs, Xosc32kFreqs, Xoscs, XoscFreqs) ==
    \/ \E d \in Ds, f \in PclkFreqs : DpllFromPclk(d, f)
    \/ \E d \in Ds : DpllFreePclk(d)
    \/ \E d \in Ds, f \in Xosc32kFreqs : DpllFromXosc32k(d, f)
    \/ \E d \in Ds : DpllFreeXosc32k(d)
    \/ \E d \in Ds, x \in Xoscs, f \in XoscFreqs : DpllFromXosc(d, x, f)
    \/ \E d \in Ds, x \in Xoscs : DpllFreeXosc(d, x)

\* The numeric setters of a DPLL Config
DpllTune(Ds, Predivs, Mults, Fracs) ==
    \/ \E d \in Ds, p \in Predivs : DpllSetPrediv(d, p)
    \/ \E d \in Ds, m \in Mults, f \in Fracs : DpllSetLoopDiv(d, m, f)

\* The flag setters of a DPLL Config
DpllFlags(Ds) ==
    \/ \E d \in Ds, b \in BOOLEAN : DpllSetLockBypass(d, b)
    \/ \E d \in Ds, b \in BOOLEAN : DpllSetWakeUpFast(d, b)
    \/ \E d \in Ds, b \in BOOLEAN : DpllSetOnDemand(d, b)

\* enable of a DPLL, with the hardware's synchronisation
DpllStart(Ds) ==
    \/ \E d \in Ds : DpllEnable(d)
    \/ \E d \in Ds : DpllEnableSourceDiv(d)
    \/ \E d \in Ds : DpllEnableLoopDiv(d)
    \/ \E d \in Ds : DpllEnableRatioSynced(d)
    \/ \E d \in Ds : DpllEnableWakeUpFast(d)
    \/ \E d \in Ds : DpllEnableOnDemand(d)
    \/ \E d \in Ds : DpllEnableBit(d)
    \/ \E d \in Ds : DpllEnableSynced(d)
    \/ \E d \in Ds : HwSyncDpllRatio(d)
    \/ \E d \in Ds : HwSyncDpllEnable(d)

\* disable of a DPLL
DpllStop(Ds) ==
    \/ \E d \in Ds : DpllDisable(d)
    \/ \E d \in Ds : DpllDisableSynced(d)

\* Consumers lock onto and release an enabled DPLL
DpllCount(Ds) ==
    \/ \E d \in Ds : DpllInc(d)
    \/ \E d \in Ds : DpllDec(d)

\* The status reads of an enabled DPLL, with the hardware's status bits
DpllWait(Ds) ==
    \/ \E d \in Ds : DpllWaitUntilReady(d)
    \/ \E d \in Ds : DpllWaitUntilLocked(d)
    \/ \E d \in Ds, rdy \in BOOLEAN, lck \in BOOLEAN : HwDpllStatus(d, rdy, lck)

\* Life cycle of both DPLLs
NextDpllLife ==
    \/ RetrieveClocks
    \/ DpllBuild(DpllIds, {32000}, {32000}, {"Xosc0", "Xosc1"}, {128000})
    \/ DpllTune(DpllIds, {3, 4}, {3000}, {0})
    \/ DpllStart(DpllIds)
    \/ DpllStop(DpllIds)
    \/ DpllCount(DpllIds)

SpecDpll == Init /\ [][NextDpllLife]_vars

\* One DPLL over the frequencies, pre-dividers and loop ratios at and around
\* the limits, in both build profiles
InitDpllNum ==
    /\ InitCommon
    /\ overflow_checks \in BOOLEAN
    /\ InitDpllVars
    /\ InitGclkVars

NextDpllNum ==
    \/ RetrieveClocks
    \/ DpllBuild({0}, {31999, 32000, 2000000, 3200000, 3200001}, {32000},
                 {"Xosc0"}, {6400000})
    \/ DpllTune({0}, {0, 1, 2, 3, 4, 4095, 4096, 4097, 4098, 65535},
                {0, 50, 1373, 2999, 3000, 6250, 6251}, {0, 24, 32})
    \/ DpllStart({0})

SpecDpllNum == InitDpllNum /\ [][NextDpllNum]_vars

\* Construction and destruction of generator Configs
GclkBuild(Gs, Srcs, Freqs) ==
    \/ \E g \in Gs, s \in Srcs, f \in Freqs : GclkNew(g, s, f)
    \/ \E g \in Gs : GclkNewSynced(g)
    \/ \E g \in Gs : GclkFree(g)
    \/ \E g \in Gs, s \in Srcs, f \in Freqs : GclkSwap(g, s, f)

\* The divider of a generator Config
GclkTune(Gs, Divs) ==
    \/ \E g \in Gs, div \in Divs : GclkSetDiv(g, div)
    \/ \E g \in Gs : GclkSetDivSynced(g)

\* enable and disable of a generator, with the hardware's synchronisation
GclkRun(Gs) ==
    \/ \E g \in Gs : GclkEnable(g)
    \/ \E g \in Gs : GclkEnableSynced(g)
    \/ \E g \in Gs : GclkDisable(g)
    \/ \E g \in Gs : GclkDisableSynced(g)
    \/ \E g \in Gs : HwSyncGclk(g)

\* Consumers lock onto and release an active generator
GclkCount(Gs) ==
    \/ \E g \in Gs : GclkLock(g)
    \/ \E g \in Gs : GclkUnlock(g)

\* Life cycle of the generators 0, 1 and 2 through the safe operations
NextGclkLife ==
    \/ RetrieveClocks
    \/ GclkBuild({1, 2}, {"Xosc0", "Gclk1"}, {8000000})
    \/ GclkTune({1, 2}, {Div(3), Div2Pow9, Div2Pow16})
    \/ GclkRun({0, 1, 2})
    \/ GclkCount({0, 1, 2})

SpecGclk == Init /\ [][NextGclkLife]_vars

\* Every unit through construction, enable, disable and free: the DPLLs also
\* as sources of the generators
Next ==
    \/ RetrieveClocks
    \/ DpllBuild(DpllIds, {32000}, {32000}, {"Xosc0"}, {128000})
    \/ DpllTune(DpllIds, {3}, {3000}, {0})
    \/ DpllStart(DpllIds)
    \/ DpllStop(DpllIds)
    \/ GclkBuild({1, 2}, {"Xosc0", "Dpll0"}, {128000})
    \/ GclkRun({1, 2})

Spec == Init /\ [][Next]_vars

\* Construction of generator Configs
GclkCreate(Gs, Srcs, Freqs) ==
    \/ \E g \in Gs, s \in Srcs, f \in Freqs : GclkNew(g, s, f)
    \/ \E g \in Gs : GclkNewSynced(g)

\* The unsafe divider change of an active generator
GclkForceDiv(Gs, Divs) ==
    \/ \E g \in Gs, div \in Divs : GclkDivUnsafe(g, div)
    \/ \E g \in Gs : GclkDivUnsafeSynced(g)

\* The unsafe source swap of an active generator
GclkForceSwap(Gs, Srcs, Freqs) ==
    \/ \E g \in Gs, s \in Srcs, f \in Freqs : GclkSwapUnsafe(g, s, f)
    \/ \E g \in Gs : GclkSwapUnsafeSynced(g)

\* The duty-cycle flag, on a Config and (unsafe) on an active generator
GclkDuty(Gs) ==
    \/ \E g \in Gs, b \in BOOLEAN : GclkImproveDutyCycle(g, b)
    \/ \E g \in Gs, b \in BOOLEAN : GclkImproveDutyCycleUnsafe(g, b)

\* The output pin of an active generator
GclkPins(Gs) ==
    \/ \E g \in Gs, pol \in BOOLEAN : GclkEnableOut(g, pol)
    \/ \E g \in Gs : GclkDisableOut(g)
    \/ \E g \in Gs : GclkOutSynced(g)

\* The dividers at and around the limits of both encodings
DivsNum ==
    {Div(0), Div(1), Div(3), Div(255), Div(256), Div(65535),
     Div2Pow8, Div2Pow9, Div2Pow16, Div2Pow17}

\* Generators 1 and 2 on an oscillator of 8 MHz, over DivsNum, as Configs
\* and as active generators
NextGclkNum ==
    \/ RetrieveClocks
    \/ GclkCreate({1, 2}, {"Xosc0"}, {8000000})
    \/ GclkTune({1, 2}, DivsNum)
    \/ GclkRun({1, 2})
    \/ GclkForceDiv({1, 2}, DivsNum)

SpecGclkNum == Init /\ [][NextGclkNum]_vars

\* Generators 1 and 2 with the operations on an active generator: its
\* counter, its output pin and the unsafe changes of divider, source and
\* duty cycle; generator 2 may run from generator 1
NextGclkForce ==
    \/ RetrieveClocks
    \/ GclkBuild({1, 2}, {"Xosc0", "Gclk1"}, {8000000})
    \/ GclkRun({1, 2})
    \/ GclkCount({1, 2})
    \/ GclkPins({1})
    \/ GclkForceDiv({1}, {Div(2)})
    \/ GclkForceSwap({1, 2}, {"Xosc0", "Xosc1"}, {8000000})
    \/ GclkDuty({1})

SpecGclkForce == Init /\ [][NextGclkForce]_vars

\* DPLL0 through its life cycle, with the status reads while it is enabled
NextDpllWait ==
    \/ RetrieveClocks
    \/ DpllBuild({0}, {32000}, {32000}, {"Xosc0"}, {128000})
    \/ DpllTune({0}, {4}, {3000}, {0})
    \/ DpllStart({0})
    \/ DpllStop({0})
    \/ DpllCount({0})
    \/ DpllWait({0})

SpecDpllWait == Init /\ [][NextDpllWait]_vars

\* Changes of a Config and of an active node: DPLL0 on external
\* oscillator 0 with its loop ratio and lock-bypass flag, generator 1 on an
\* oscillator with its duty-cycle flag, its output pin and the unsafe changes
\* of an active generator
NextActive ==
    \/ RetrieveClocks
    \/ DpllFromXosc(0, "Xosc0", 128000)
    \/ DpllSetLoopDiv(0, 1500, 0)
    \/ \E b \in BOOLEAN : DpllSetLockBypass(0, b)
    \/ DpllStart({0})
    \/ DpllStop({0})
    \/ GclkCreate({1}, {"Xosc0"}, {8000000})
    \/ GclkRun({1})
    \/ GclkPins({1})
    \/ GclkForceDiv({1}, {Div(2)})
    \/ GclkForceSwap({1}, {"Xosc0", "Xosc1"}, {8000000})
    \/ GclkDuty({1})

SpecActive == Init /\ [][NextActive]_vars

\* DPLL0 on its peripheral channel or on external oscillator 0, with every
\* setter, enabled and disabled again and again
NextDpllEnable ==
    \/ RetrieveClocks
    \/ DpllFromPclk(0, 32000)
    \/ DpllFreePclk(0)
    \/ DpllFromXosc(0, "Xosc0", 128000)
    \/ DpllFreeXosc(0, "Xosc0")
    \/ DpllTune({0}, {4}, {1500, 3000}, {0, 16})
    \/ DpllFlags({0})
    \/ DpllStart({0})
    \/ DpllStop({0})

SpecDpllEnable == Init /\ [][NextDpllEnable]_vars

\* DPLL0 with the pre-dividers at both ends of the legal range and around
\* 2048, on oscillators fast enough for each of them to pass the assertions
\* of enable
NextDpllPrediv ==
    \/ RetrieveClocks
    \/ DpllBuild({0}, {32000}, {32000}, {"Xosc0"}, {128000, 131072000})
    \/ DpllTune({0}, {2, 4, 2046, 2048, 2050, 4094, 4096}, {3000}, {0})
    \/ DpllStart({0})
    \/ DpllStop({0})

SpecDpllPrediv == Init /\ [][NextDpllPrediv]_vars

\* DPLL0 with integer loop ratios on both sides of the 13-bit field's range,
\* in builds with and without overflow checks
NextDpllLdr ==
    \/ RetrieveClocks
    \/ DpllBuild({0}, {32000, 3200000}, {32000}, {"Xosc0"}, {6400000})
    \/ DpllTune({0}, {2, 4}, {0, 1, 30, 62, 1373, 3000, 6250, 8192, 8193, 9426, 65535},
                {0, 32, 255})
    \/ DpllStart({0})
    \/ DpllStop({0})

SpecDpllLdr == InitDpllNum /\ [][NextDpllLdr]_vars

\* DPLL0 and generator 1 on one oscillator through every operation that
\* busy-waits
NextSync ==
    \/ RetrieveClocks
    \/ DpllFromXosc(0, "Xosc0", 128000)
    \/ DpllSetLoopDiv(0, 1500, 0)
    \/ DpllStart({0})
    \/ DpllStop({0})
    \/ GclkCreate({1}, {"Xosc0"}, {8000000})
    \/ GclkTune({1}, {Div(2)})
    \/ GclkRun({1})
    \/ GclkPins({1})

\* The step the processor takes next inside a call: the following register
\* write, or the return once the polled sync-busy bit reads clear
CallContinues == pc # Idle /\ NextSync /\ pc' # pc

\* The processor keeps executing the call it is in, and the hardware
\* completes every synchronisation it has started
SpecSync ==
    /\ Init
    /\ [][NextSync]_vars
    /\ WF_vars(CallContinues)
    /\ WF_vars(HwSyncGclk(1))
    /\ WF_vars(HwSyncDpllRatio(0))
    /\ WF_vars(HwSyncDpllEnable(0))

\* DPLL0 in each of its three variants, with the flag setters
NextDpllFlags ==
    \/ RetrieveClocks
    \/ DpllBuild({0}, {32000}, {32000}, {"Xosc0"}, {128000})
    \/ DpllTune({0}, {4}, {3000}, {0})
    \/ DpllFlags({0})
    \/ DpllStart({0})
    \/ DpllStop({0})

SpecDpllFlags == Init /\ [][NextDpllFlags]_vars

\* The unsafe disable of an active generator
GclkForceStop(Gs) ==
    \/ \E g \in Gs : GclkDisableUnchecked(g)
    \/ \E g \in Gs : GclkDisableUncheckedSynced(g)

\* Generators 1 and 2, generator 2 also on generator 1, with the safe
\* operations, the counters and the unsafe swap and disable
NextGclkUnchecked ==
    \/ RetrieveClocks
    \/ GclkBuild({1, 2}, {"Xosc0", "Gclk1"}, {8000000})
    \/ GclkRun({1, 2})
    \/ GclkCount({1, 2})
    \/ GclkForceSwap({1, 2}, {"Xosc0", "Xosc1"}, {8000000})
    \/ GclkForceStop({1, 2})

SpecGclkUnchecked == Init /\ [][NextGclkUnchecked]_vars

----------------------------------------------------------------------------
(* Properties *)

\* The step is a call of Dpll::enable on unit d: it passes the assertions and
\* starts writing, or it panics
EnableCalled(d) ==
    /\ Running
    /\ dpll[d].st = "config"
    /\ \/ dpll'[d].st = "enabling"
       \/ halted' /\ last'.op = "DpllEnable" /\ last'.unit = d

\* The step is a call of Dpll::set_prediv on unit d
SetPredivCalled(d) ==
    /\ Running
    /\ dpll[d].st = "config"
    /\ last' # last
    /\ last'.op = "DpllSetPrediv"
    /\ last'.unit = d

\* 64-bit comparison of two products [over, low]
Le64(a, b) == a.over < b.over \/ (a.over = b.over /\ Le32(a.low, b.low))

\* 32 * input_freq * (mult + frac/32) with frac/32 a fraction, exactly
RatioTimes32(c) == Mul32(c.src_freq \div c.prediv, 32 * c.mult + c.frac)

\* input_freq * (mult + frac/32), frac/32 a fraction, lies in
\* [96000000, 200000000]: 32 * 96000000 = 46875 * 2^16 and
\* 32 * 200000000 = 2^32 + 2105032704
RatioInRange(c) ==
    /\ Le64([over |-> 0, low |-> [hi |-> 46875, lo |-> 0]], RatioTimes32(c))
    /\ Le64(RatioTimes32(c), [over |-> 1, low |-> U32(2105032704)])

\* C1: for the generators 1-11 the safe Gclk::disable is applicable to an
\* active generator exactly when its reference count is 0 (not after a lock,
\* again after the matching unlock); a generator leaves the active state only
\* at count 0, through disable, and disable returns it as a Config with the
\* enable bit clear.
C1_GclkDisableOnlyAtZero ==
    /\ [](\A g \in GenIds \ {0} :
            (Running /\ gclk[g].st = "active")
                => ((ENABLED GclkDisable(g)) <=> gclk[g].count = 0))
    /\ [][\A g \in GenIds \ {0} :
            /\ (gclk[g].st = "active" /\ gclk'[g].st # "active")
                  => /\ gclk[g].count = 0
                     /\ gclk'[g].st = "disabling"
            /\ (gclk[g].st = "disabling" /\ gclk'[g].st # "disabling")
                  => /\ gclk'[g].st = "config"
                     /\ gclk'[g].cfg = gclk[g].cfg
                     /\ ~gclkreg'[g].genen
                     /\ last' = Returned("GclkDisable", g)]_vars

\* A generator was locked, unlocked and then disabled: it is a Config again
C1_Witness ==
    /\ last = Returned("GclkDisable", 1)
    /\ gclk[1].st = "config"
    /\ gclk[1].count = 0
    /\ ~gclkreg[1].genen
    /\ gclk[2].st = "config"

\* C2: for every generator and every DPLL at most one token of the unit is
\* live (the free tokens and the one inside a Config or an active node
\* together), and no token of the unit is constructed a second time.
C2_OneLiveToken ==
    /\ \A g \in GenIds : GclkLiveTokens(g) <= 1 /\ gclkTok[g].issued <= 1
    /\ \A d \in DpllIds : DpllLiveTokens(d) <= 1 /\ dpllTok[d].issued <= 1

\* Tokens went into a Config, into an active node and back to the caller
C2_Witness ==
    /\ last = Returned("GclkFree", 1)
    /\ gclkTok[1].free = 1
    /\ gclk[2].st = "active"
    /\ dpll[0].st = "enabled"
    /\ dpll[1].st = "config"
    /\ gclk[0].st = "active"

\* C3: an enabled DPLL leaves the enabled state only at reference count 0,
\* through disable, which clears the enable bit; disable returns only once
\* the ENABLE synchronisation bit is clear and yields the same Config, which
\* still holds the token.
C3_DpllDisableOnlyAtZero ==
    [][\A d \in DpllIds :
         /\ (dpll[d].st = "enabled" /\ dpll'[d].st # "enabled")
               => /\ dpll[d].count = 0
                  /\ dpll'[d].st = "disabling"
                  /\ ~dpllreg'[d].enable
                  /\ pc'.op = "DpllDisable"
         /\ (dpll[d].st = "disabling" /\ dpll'[d].st # "disabling")
               => /\ ~dpllsync[d].enable
                  /\ ~dpllreg'[d].enable
                  /\ dpll'[d].st = "config"
                  /\ dpll'[d].cfg = dpll[d].cfg
                  /\ dpllTok'[d].free = 0
                  /\ DpllLiveTokens(d)' = 1
                  /\ last' = Returned("DpllDisable", d)]_vars

\* A DPLL was enabled and disabled again
C3_Witness ==
    /\ last = Returned("DpllDisable", 0)
    /\ dpll[0].st = "config"
    /\ ~dpllreg[0].enable
    /\ dpllreg[0].ldr = LdrField(3000)

\* C4 as stated: when disable returns, the count of the oscillator that
\* drives the DPLL is one lower than it was while the DPLL was enabled.
C4_DisableUnlocksSource ==
    [][\A d \in DpllIds :
         (/\ dpll[d].st = "disabling"
          /\ dpll'[d].st = "config"
          /\ dpll[d].cfg.I \in Oscillators)
            => srcCount'[dpll[d].cfg.I] = srcCount[dpll[d].cfg.I] - 1]_vars

\* C4, amended: no step of disable changes the count of any source; the
\* count of the driving oscillator is lowered, by exactly one, by the free of
\* the Config that disable returned.
C4_DisableKeepsSourceCount ==
    [][\A d \in DpllIds :
         /\ (/\ dpll[d].st \in {"enabled", "disabling"}
             /\ dpll'[d].st # dpll[d].st)
               => srcCount' = srcCount
         /\ (/\ dpll[d].st = "config"
             /\ dpll'[d].st = "none"
             /\ dpll[d].cfg.I \in Oscillators)
               => srcCount' = [srcCount EXCEPT ![dpll[d].cfg.I] = @ - 1]]_vars

\* disable returned the Config of an oscillator-driven DPLL and the
\* oscillator is still locked
C4_Witness ==
    /\ last = Returned("DpllDisable", 1)
    /\ dpll[1].st = "config"
    /\ dpll[1].cfg.I = "Xosc0"
    /\ srcCount["Xosc0"] = 1

\* C5: a call of enable fails on the input-frequency check exactly when
\* source_freq / prediv is below 32000 or above 3200000; nothing is clamped:
\* a call that passes the assertion goes on with the Config it was given.
C5_InputFreqChecked ==
    [][\A d \in DpllIds :
         EnableCalled(d) =>
           LET f == dpll[d].cfg.src_freq \div dpll[d].cfg.prediv IN
           /\ (f < 32000 \/ f > 3200000)
                <=> (halted' /\ last' = Panicked("DpllEnable", d,
                                                 "Invalid DPLL input frequency", 0))
           /\ ~halted' => dpll'[d].cfg = dpll[d].cfg]_vars

\* enable panicked on the input frequency
C5_Witness ==
    /\ halted
    /\ last = Panicked("DpllEnable", 0, "Invalid DPLL input frequency", 0)
    /\ dpllreg[0] = DpllRegReset

\* C6 as stated: a call of enable on a Config whose output frequency
\* input_freq * (mult + frac/32) lies outside [96000000, 200000000] fails,
\* writes no register and produces no active node.
C6_OutputFreqChecked ==
    [][\A d \in DpllIds :
         (EnableCalled(d) /\ ~RatioInRange(dpll[d].cfg))
            => /\ halted'
               /\ last'.outcome = "panic"
               /\ dpllreg' = dpllreg
               /\ dpll'[d].st \notin {"enabling", "enabled"}]_vars

\* C7 as stated: with 0 < frac < 32 the frequency of a Config is strictly
\* greater than input_freq * mult, and the Config 32000 / 3000 / 24 / 1
\* reports 96024000.
C7_FractionCounts ==
    \A d \in DpllIds :
       dpll[d].st = "config" =>
         LET c == dpll[d].cfg
             whole == Mul32(c.src_freq \div c.prediv, c.mult)
         IN  /\ (c.frac > 0 /\ c.frac < 32)
                  => ~Le64([over |-> 0, low |-> DpllFreq(c)], whole)
             /\ (c.src_freq = 32000 /\ c.prediv = 1 /\ c.mult = 3000 /\ c.frac = 24)
                  => DpllFreq(c) = U32(96024000)

\* C8 as stated: with frac = 0 the frequency of every Config is
\* (source_freq / prediv) * mult.
C8_IntegerRatio ==
    \A d \in DpllIds :
       (dpll[d].st = "config" /\ dpll[d].cfg.frac = 0)
          => Mul32(dpll[d].cfg.src_freq \div dpll[d].cfg.prediv, dpll[d].cfg.mult)
               = [over |-> 0, low |-> DpllFreq(dpll[d].cfg)]

\* C9: set_prediv(p) fails for every odd p and every p outside [2, 4096];
\* for an even p with 2 <= p <= 4096 it returns the Config with prediv = p
\* and every other field as it was.
C9_SetPrediv ==
    [][\A d \in DpllIds :
         SetPredivCalled(d) =>
           LET p == last'.arg IN
           IF p % 2 = 0 /\ 2 <= p /\ p <= 4096
             THEN /\ last'.outcome = "ok"
                  /\ ~halted'
                  /\ dpll'[d].st = "config"
                  /\ dpll'[d].cfg = [dpll[d].cfg EXCEPT !.prediv = p]
             ELSE /\ last'.outcome = "panic"
                  /\ dpll'[d].st # "config"]_vars

\* set_prediv accepted the largest pre-divider
C9_Witness ==
    /\ last = ReturnedOf("DpllSetPrediv", 0, 4096)
    /\ dpll[0].st = "config"
    /\ dpll[0].cfg.prediv = 4096

\* C10 as stated: after a failed set_prediv or enable the program runs on and
\* the caller holds the Config of the unit.
C10_FailureReturnsConfig ==
    last.outcome = "panic" => (~halted /\ dpll[last.unit].st = "config")

\* C10, amended: a failed set_prediv or enable is a panic inside the call.
\* The call writes no register and does not return: the program runs no
\* further, and the Config moved into the call is gone with its token.
C10_FailureIsPanic ==
    /\ [](last.outcome = "panic"
            => /\ halted
               /\ dpll[last.unit].st = "lost"
               /\ DpllLiveTokens(last.unit) = 0)
    /\ [][/\ (~halted /\ halted') => (last'.outcome = "panic" /\ dpllreg' = dpllreg)
          /\ halted => (halted' /\ last' = last /\ dpll' = dpll
                          /\ dpllreg' = dpllreg /\ dpllTok' = dpllTok)]_vars

\* set_prediv panicked on an odd pre-divider
C10_Witness ==
    /\ halted
    /\ last.op = "DpllSetPrediv"
    /\ last.outcome = "panic"
    /\ last.arg = 3

\* C11 as stated: every enabled DPLL has an input frequency in
\* [32000, 3200000] and an output frequency input_freq * (mult + frac/32) in
\* [96000000, 200000000], for as long as it is enabled.
C11_EnabledIsValid ==
    \A d \in DpllIds :
       dpll[d].st = "enabled" =>
         LET f == dpll[d].cfg.src_freq \div dpll[d].cfg.prediv IN
         /\ 32000 <= f
         /\ f <= 3200000
         /\ RatioInRange(dpll[d].cfg)

\* The step is the return of a divider change of generator g: GclkConfig::div
\* or the unsafe Gclk::div
SetDivReturned(g) ==
    /\ pc.op \in {"GclkSetDiv", "GclkDivUnsafe"}
    /\ pc.unit = g
    /\ pc' = Idle

\* The divisor of each divider variant
DivisorOf(div) ==
    CASE div.kind = "Div" -> div.n
      [] div.kind = "Div2Pow8" -> 256
      [] div.kind = "Div2Pow9" -> 512
      [] div.kind = "Div2Pow16" -> 65536
      [] div.kind = "Div2Pow17" -> 131072

\* as_u32 of Div(n) over the 8-bit and over the 16-bit range
DirectIsN8 == \A n \in 0 .. 255 : as_u32(Div(n)) = n
DirectIsN16 == \A n \in 0 .. 65535 : as_u32(Div(n)) = n

\* The division a Config applies to its source: GclkConfig::freq divides by
\* the recorded div, and not at all when that is 0
Divider(c) == IF c.div = 0 THEN 1 ELSE c.div

\* C12: on a generator other than generator 1, after set_divider(Direct(n)),
\* 0 <= n <= 255, the generator divides by max(n, 1): the recorded value and
\* the DIV field are n, Direct(0) and Direct(1) both leave the source
\* frequency undivided, and the reported frequency is that of the source
\* divided by max(n, 1).
C12_DividerIsMax ==
    /\ [](DirectIsN8)
    /\ [][\A g \in GenIds \ {1} :
            (SetDivReturned(g) /\ pc.div.kind = "Div")
               => /\ pc.div.n \in 0 .. 255
                  /\ Divider(gclk'[g].cfg) = (IF pc.div.n = 0 THEN 1 ELSE pc.div.n)
                  /\ gclkreg'[g].div = pc.div.n
                  /\ gclkreg'[g].divsel = "DIV1"
                  /\ GclkConfigFreq(gclk'[g].cfg)
                       = 8000000 \div (IF pc.div.n = 0 THEN 1 ELSE pc.div.n)]_vars

\* set_divider(Direct(0)) returned on generator 2
C12_Witness ==
    /\ last = Returned("GclkSetDiv", 2)
    /\ gclk[2].st = "config"
    /\ gclk[2].cfg.div = 0
    /\ gclkreg[2].div = 0

C14_FreqAfterDiv ==
    /\ [][\A g \in GenIds :
            SetDivReturned(g)
               => /\ gclk'[g].st = (IF pc.op = "GclkSetDiv" THEN "config" ELSE "active")
                  /\ gclk'[g].cfg.freq = 8000000
                  /\ ~halted'
                  /\ GclkConfigFreq(gclk'[g].cfg) =
                       (IF DivisorOf(pc.div) \in {0, 1}
                        THEN 8000000
                        ELSE 8000000 \div DivisorOf(pc.div))]_vars
    /\ [](\A g \in GenIds :
            gclk[g].st \in {"config", "active"} /\ gclk[g].cfg.div = 0
               => GclkConfigFreq(gclk[g].cfg) = gclk[g].cfg.freq)

\* An active generator 2 was given Div(0), generator 1 holds Div(3)
C14_Witness ==
    /\ last = Returned("GclkDivUnsafe", 2)
    /\ gclk[2].st = "active"
    /\ gclk[2].cfg.div = 0
    /\ GclkConfigFreq(gclk[2].cfg) = 8000000
    /\ gclk[1].st \in {"config", "active"}
    /\ GclkConfigFreq(gclk[1].cfg) = 2666666

\* C15 as stated: in every state the frequency a generator (Config or
\* active) reports is the current frequency of its current source divided by
\* its current divisor, also after the divider of the generator it runs from
\* was changed.
C15_FreqIsLive ==
    \A g \in GenIds :
       gclk[g].st \in {"config", "active"} =>
          LET live == IF gclk[g].cfg.src = "Dfll"
                        THEN DfllFreq
                        ELSE SourceFreq(gclk[g].cfg.src, 8000000) IN
          GclkConfigFreq(gclk[g].cfg) = live \div Divider(gclk[g].cfg)

\* The sources a generator can be built on in these specifications
GclkSources == Oscillators \cup {"Gclk1", "Dpll0", "Dpll1"}

\* C16: GclkConfig::new takes a free token of the generator, writes the
\* source's variant to the generator's source-select field and waits for the
\* synchronisation; it returns with the source's counter one higher, every
\* other counter unchanged, and a Config on that source with divisor 1 that
\* reports the source's frequency.
C16_NewConfig ==
    [][\A g \in GenIds :
         /\ (pc = Idle /\ pc'.op = "GclkNew" /\ pc'.unit = g)
               => /\ gclkTok[g].free > 0
                  /\ gclkTok'[g].free = gclkTok[g].free - 1
                  /\ gclkTok'[g].issued = gclkTok[g].issued
                  /\ gclkreg'[g].src =
                        (CASE pc'.src = "Gclk1" -> "GCLKGEN1"
                           [] pc'.src = "Xosc0" -> "XOSC0"
                           [] pc'.src = "Xosc1" -> "XOSC1"
                           [] pc'.src = "Dpll0" -> "DPLL0"
                           [] pc'.src = "Dpll1" -> "DPLL1"
                           [] OTHER -> "?")
                  /\ gclksync'[g]
                  /\ \A s \in GclkSources : SourceCount(s)' = SourceCount(s)
         /\ (pc.op = "GclkNew" /\ pc.unit = g /\ pc' = Idle)
               => /\ ~gclksync[g]
                  /\ UNCHANGED <<gclkreg, gclkTok>>
                  /\ \A s \in GclkSources :
                        SourceCount(s)' = SourceCount(s) + (IF s = pc.src THEN 1 ELSE 0)
                  /\ gclk'[g].st = "config"
                  /\ gclk'[g].cfg.src = pc.src
                  /\ gclk'[g].cfg.div = 1
                  /\ GclkConfigFreq(gclk'[g].cfg) =
                        (IF pc.src = "Gclk1" THEN GclkConfigFreq(gclk[1].cfg)
                         ELSE IF IsDpll(pc.src) THEN DpllHertz(DpllOf(pc.src))
                         ELSE 8000000)]_vars

\* Generator 2 was built on a generator 1 that divides 8 MHz by 3
C16_Witness ==
    /\ last = Returned("GclkNew", 2)
    /\ gclk[2].st = "config"
    /\ gclk[2].cfg = [src |-> "Gclk1", freq |-> 2666666, div |-> 1]
    /\ gclkreg[2].src = "GCLKGEN1"
    /\ gclk[1].count = 1
    /\ gclkTok[2].free = 0

\* The sum of the counters of all sources
TotalLocks ==
    srcCount["Dfll"] + srcCount["Xosc0"] + srcCount["Xosc1"] + srcCount["Xosc32k"]
      + dpll[0].count + dpll[1].count + gclk[1].count

\* C17: swap_source first unlocks the old source (its counter goes down by
\* one) and rewrites the source-select field, then, synchronised, returns the
\* Config on the new source with the new source locked (its counter up by
\* one); no other counter moves and the token stays with the Config, so the
\* sum of the counters after the swap is the sum before it.
C17_SwapSource ==
    [][\A g \in GenIds :
         /\ (pc = Idle /\ pc'.op = "GclkSwap" /\ pc'.unit = g)
               => /\ gclk[g].st = "config"
                  /\ pc'.src # gclk[g].cfg.src
                  /\ \A s \in GclkSources :
                        SourceCount(s)' =
                           SourceCount(s) - (IF s = gclk[g].cfg.src THEN 1 ELSE 0)
                  /\ TotalLocks' = TotalLocks - 1
                  /\ gclkreg'[g].src =
                        (CASE pc'.src = "Gclk1" -> "GCLKGEN1"
                           [] pc'.src = "Xosc0" -> "XOSC0"
                           [] pc'.src = "Xosc1" -> "XOSC1"
                           [] pc'.src = "Dpll0" -> "DPLL0"
                           [] pc'.src = "Dpll1" -> "DPLL1"
                           [] OTHER -> "?")
                  /\ gclksync'[g]
                  /\ UNCHANGED gclkTok
         /\ (pc.op = "GclkSwap" /\ pc.unit = g /\ pc'.op = "GclkSwap")
               => TotalLocks' = TotalLocks
         /\ (pc.op = "GclkSwap" /\ pc.unit = g /\ pc' = Idle)
               => /\ ~gclksync[g]
                  /\ \A s \in GclkSources :
                        SourceCount(s)' = SourceCount(s) + (IF s = pc.src THEN 1 ELSE 0)
                  /\ TotalLocks' = TotalLocks + 1
                  /\ gclk'[g].st = "config"
                  /\ gclk'[g].cfg.src = pc.src
                  /\ UNCHANGED <<gclkreg, gclkTok>>]_vars

\* Generator 2 was swapped from the oscillator to DPLL0
C17_Witness ==
    /\ last = Returned("GclkSwap", 2)
    /\ gclk[2].st = "config"
    /\ gclk[2].cfg.src = "Dpll0"
    /\ gclkreg[2].src = "DPLL0"
    /\ dpll[0].st = "enabled"
    /\ dpll[0].count >= 1

\* C18: enable() of a generator Config sets the generator's enable bit and
\* returns only when that generator's synchronisation bit is clear; the
\* active generator it returns has counter 0 and the source, divider and
\* token of the Config.
C18_EnableGclk ==
    [][\A g \in GenIds :
         /\ (pc = Idle /\ pc'.op = "GclkEnable" /\ pc'.unit = g)
               => /\ gclk[g].st = "config"
                  /\ gclkreg'[g].genen
                  /\ gclksync'[g]
                  /\ gclk'[g].cfg = gclk[g].cfg
                  /\ UNCHANGED gclkTok
         /\ (pc.op = "GclkEnable" /\ pc.unit = g /\ pc'.op = "GclkEnable")
               => /\ gclk'[g] = gclk[g]
                  /\ gclkreg'[g] = gclkreg[g]
                  /\ UNCHANGED gclkTok
         /\ (pc.op = "GclkEnable" /\ pc.unit = g /\ pc' = Idle)
               => /\ ~gclksync[g]
                  /\ ~gclksync'[g]
                  /\ gclkreg'[g].genen
                  /\ gclk'[g].st = "active"
                  /\ gclk'[g].count = 0
                  /\ gclk'[g].cfg = gclk[g].cfg
                  /\ GclkLiveTokens(g)' = GclkLiveTokens(g)
                  /\ UNCHANGED <<gclkreg, gclkTok>>]_vars

\* Generator 2, on generator 1 and dividing by 512, was enabled
C18_Witness ==
    /\ last = Returned("GclkEnable", 2)
    /\ gclk[2].st = "active"
    /\ gclk[2].count = 0
    /\ gclk[2].cfg.src = "Gclk1"
    /\ gclk[2].cfg.div = 512
    /\ gclkreg[2].genen
    /\ ~gclksync[2]

\* The step belongs to a call of enable() or disable() of generator g
GclkRoundTripStep(g) ==
    \/ pc.op \in {"GclkEnable", "GclkDisable"} /\ pc.unit = g
    \/ pc'.op \in {"GclkEnable", "GclkDisable"} /\ pc'.unit = g

\* The step belongs to a call of enable() or disable() of DPLL d that does
\* not panic
DpllRoundTripStep(d) ==
    /\ ~halted'
    /\ \/ pc.op \in {"DpllEnable", "DpllDisable"} /\ pc.unit = d
       \/ pc'.op \in {"DpllEnable", "DpllDisable"} /\ pc'.unit = d

IsActive(u) == u.st \in {"active", "swapping"}

\* The step is a whole call of op on unit g, one without a busy-wait: the
\* program, not the hardware, steps and leaves op as the last call
Completes(op, g) ==
    /\ pc = Idle
    /\ pc' = Idle
    /\ last' = Returned(op, g)
    /\ gclksync' = gclksync
    /\ dpllsync' = dpllsync

\* The step is lock() on the active generator g: by a consumer, or, for
\* generator 1, source.lock() at the end of new or swap of a generator
\* built on it
LockStep(g) ==
    \/ Completes("GclkLock", g)
    \/ /\ g = 1
       /\ pc.op \in {"GclkNew", "GclkSwap", "GclkSwapUnsafe"}
       /\ pc.src = "Gclk1"
       /\ pc' = Idle

\* The step is unlock() on the active generator g: by a consumer, or, for
\* generator 1, the unlock in free or at the start of swap of a generator
\* built on it
UnlockStep(g) ==
    \/ Completes("GclkUnlock", g)
    \/ /\ g = 1
       /\ \E h \in GenIds \ {1} :
             /\ gclk[h].cfg.src = "Gclk1"
             /\ \/ Completes("GclkFree", h)
                \/ pc = Idle /\ pc'.op \in {"GclkSwap", "GclkSwapUnsafe"} /\ pc'.unit = h

\* C20: the counter of an active generator changes only by lock(), which
\* adds one, and by unlock(), which takes one off and is not available at
\* zero; the output pin, the divider change, the duty-cycle change and the
\* source swap of the generator leave its counter as it is.
C20_CountFrame ==
    /\ [](\A g \in GenIds :
            /\ gclk[g].count >= 0
            /\ (gclk[g].st = "active" /\ gclk[g].count = 0) => ~ENABLED GclkUnlock(g))
    /\ [][\A g \in GenIds :
            (IsActive(gclk[g]) /\ IsActive(gclk'[g]))
               => /\ gclk'[g].count # gclk[g].count
                       => \/ LockStep(g) /\ gclk'[g].count = gclk[g].count + 1
                          \/ /\ UnlockStep(g)
                             /\ gclk[g].count > 0
                             /\ gclk'[g].count = gclk[g].count - 1
                  /\ (Completes("GclkLock", g))
                       => gclk'[g].count = gclk[g].count + 1
                  /\ (Completes("GclkUnlock", g))
                       => gclk'[g].count = gclk[g].count - 1
                  /\ (\/ pc.op \in {"GclkEnableOut", "GclkDisableOut", "GclkDivUnsafe",
                                    "GclkSwapUnsafe"} /\ pc.unit = g
                      \/ pc'.op \in {"GclkEnableOut", "GclkDisableOut", "GclkDivUnsafe",
                                     "GclkSwapUnsafe"} /\ pc'.unit = g
                      \/ gclkreg'[g] # gclkreg[g]
                      \/ gclk'[g].cfg # gclk[g].cfg)
                       => gclk'[g].count = gclk[g].count]_vars

\* Generator 1 holds two locks while its pin is driven, its divider was
\* changed to 2, its duty-cycle flag set and its source swapped
C20_Witness ==
    /\ gclk[1].st = "active"
    /\ gclk[1].count = 2
    /\ gclkreg[1].oe
    /\ gclkreg[1].idc
    /\ gclk[1].cfg.src = "Xosc1"
    /\ last = Returned("GclkDivUnsafe", 1)
    /\ gclk[1].cfg.div = 2

\* The step is a constructor of DPLL d returning its Config
DpllConstructed(d) == dpll[d].st = "none" /\ dpll'[d].st = "config"

\* C21 as stated: each of the three constructors consumes the token and
\* raises the counter of the chosen source by exactly one.
C21_ConstructorLocks ==
    [][\A d \in DpllIds :
         DpllConstructed(d)
            => /\ dpllTok'[d].free = dpllTok[d].free - 1
               /\ TotalLocks' = TotalLocks + 1]_vars

\* C21, amended: each of the three constructors consumes the token.
\* from_xosc32k and from_xosc0/1 raise the counter of the chosen oscillator
\* by exactly one and no other counter; from_pclk takes the peripheral
\* channel itself into the Config and raises no counter.
C21_ConstructorTakesSource ==
    [][\A d \in DpllIds :
         DpllConstructed(d)
            => /\ dpllTok[d].free > 0
               /\ dpllTok'[d].free = dpllTok[d].free - 1
               /\ dpllTok'[d].issued = dpllTok[d].issued
               /\ dpll'[d].cfg.I \in {"Pclk", "Xosc32k", "Xosc0", "Xosc1"}
               /\ \A s \in GclkSources :
                     SourceCount(s)' =
                        SourceCount(s) + (IF s = dpll'[d].cfg.I THEN 1 ELSE 0)
               /\ IF dpll'[d].cfg.I = "Pclk"
                    THEN /\ pclkOwner[d] = "caller"
                         /\ pclkOwner'[d] = "dpll"
                         /\ TotalLocks' = TotalLocks
                    ELSE /\ UNCHANGED pclkOwner
                         /\ TotalLocks' = TotalLocks + 1]_vars

\* DPLL0 was built on its peripheral channel, DPLL1 on the 32 kHz
\* oscillator: one lock besides that of generator 0 on the DFLL
C21_Witness ==
    /\ last = Returned("DpllFromPclk", 0)
    /\ dpll[0].st = "config"
    /\ dpll[0].cfg.I = "Pclk"
    /\ pclkOwner[0] = "dpll"
    /\ dpll[1].st = "config"
    /\ dpll[1].cfg.I = "Xosc32k"
    /\ srcCount["Xosc32k"] = 1
    /\ srcCount["Dfll"] = 1
    /\ TotalLocks = 2

\* C22: a new DPLL Config has mult 1 and frac 0, pre-divider 1 when built on
\* a peripheral channel or on the 32 kHz oscillator and 2 when built on
\* external oscillator 0 or 1; the pre-divider of the first two variants is 1
\* in every state, no operation being there to change it.
C22_NewDpllDefaults ==
    /\ [][\A d \in DpllIds :
            DpllConstructed(d)
               => /\ dpll'[d].cfg.mult = 1
                  /\ dpll'[d].cfg.frac = 0
                  /\ dpll'[d].cfg.prediv =
                        (IF dpll'[d].cfg.I \in {"Xosc0", "Xosc1"} THEN 2 ELSE 1)]_vars
    /\ [](\A d \in DpllIds :
            (dpll[d].st \in {"config", "enabling", "enabled", "disabling"}
               /\ dpll[d].cfg.I \in {"Pclk", "Xosc32k"})
               => /\ dpll[d].cfg.prediv = 1
                  /\ \A p \in 0 .. 8 : ~ENABLED DpllSetPrediv(d, p))

\* DPLL0, on a peripheral channel, has been given a loop ratio and enabled
\* and still has pre-divider 1; DPLL1, on an external oscillator, was given
\* pre-divider 4
C22_Witness ==
    /\ dpll[0].st = "enabled"
    /\ dpll[0].cfg.I = "Pclk"
    /\ dpll[0].cfg.mult = 3000
    /\ dpll[0].cfg.prediv = 1
    /\ dpll[1].st = "config"
    /\ dpll[1].cfg.I \in {"Xosc0", "Xosc1"}
    /\ dpll[1].cfg.prediv = 4

\* The step is a status read op of DPLL d whose outcome is seen in last
StatusRead(op, d) ==
    /\ last'.op = op
    /\ last'.unit = d
    /\ last' # last

\* C23: wait_until_ready() and wait_until_locked() of an enabled DPLL, at
\* any counter, do not wait: each returns WouldBlock exactly when the
\* clock-ready, respectively lock, status bit is clear and Ok otherwise,
\* never fails otherwise, and changes no register, Config, or counter.
C23_StatusReads ==
    /\ [][\A d \in DpllIds :
            /\ StatusRead("DpllWaitUntilReady", d)
                  => /\ last'.outcome = (IF dpllreg[d].clkrdy THEN "ok" ELSE "WouldBlock")
                     /\ dpll[d].st = "enabled"
                     /\ UNCHANGED <<halted, pc, srcCount, dpllVars, gclkVars>>
            /\ StatusRead("DpllWaitUntilLocked", d)
                  => /\ last'.outcome = (IF dpllreg[d].lock THEN "ok" ELSE "WouldBlock")
                     /\ dpll[d].st = "enabled"
                     /\ UNCHANGED <<halted, pc, srcCount, dpllVars, gclkVars>>]_vars
    /\ [](\A d \in DpllIds :
            (~halted /\ pc = Idle /\ dpll[d].st = "enabled")
               => ENABLED DpllWaitUntilReady(d) /\ ENABLED DpllWaitUntilLocked(d))
    /\ [](pc.op \notin {"DpllWaitUntilReady", "DpllWaitUntilLocked"})

\* With two consumers on DPLL0, clock ready but not locked,
\* wait_until_locked returned WouldBlock
C23_Witness ==
    /\ last = WouldBlock("DpllWaitUntilLocked", 0)
    /\ dpll[0].st = "enabled"
    /\ dpll[0].count = 2
    /\ dpllreg[0].clkrdy
    /\ ~dpllreg[0].lock

\* The settings of DPLL d in its registers: everything but the enable bit
\* and the status bits
DpllSettings(r) ==
    <<r.refclk, r.div, r.ldr, r.ldrfrac, r.lbypass, r.wuf, r.ondemand>>

\* The settings of generator g in its register: source, divider and
\* duty-cycle flag
GclkSettings(r) == <<r.src, r.divsel, r.div, r.idc>>

GclkHolders(s) ==
    {g \in GenIds : /\ gclk[g].st \in {"config", "enabling", "active", "disabling"}
                    /\ gclk[g].cfg.src = s}

\* C25: over new -> enable -> disable -> free the source of a generator is
\* locked once, by new, and unlocked once, by free, so that its counter ends
\* where it started, and free leaves the token ready for a new Config on
\* another source.
C25_TokenCycle ==
    /\ [](\A s \in Oscillators : srcCount[s] = Cardinality(GclkHolders(s)))
    /\ [](\A g \in GenIds \ {0} :
            (Running /\ gclk[g].st = "none" /\ gclkTok[g].free > 0)
               => /\ srcCount["Xosc0"] < MaxCount => ENABLED GclkNew(g, "Xosc0", 8000000)
                  /\ (g # 1 /\ gclk[1].st = "active" /\ gclk[1].count < MaxCount)
                        => ENABLED GclkNew(g, "Gclk1", 8000000))
    /\ [][\A g \in GenIds :
            /\ GclkRoundTripStep(g)
                  => /\ UNCHANGED srcCount
                     /\ \A h \in GenIds : gclk'[h].count = gclk[h].count
                     /\ UNCHANGED gclkTok
            /\ (gclk[g].st = "config" /\ gclk'[g].st = "none")
                  => /\ \A s \in GclkSources :
                           SourceCount(s)' =
                              SourceCount(s) - (IF s = gclk[g].cfg.src THEN 1 ELSE 0)
                     /\ gclkTok'[g].free = gclkTok[g].free + 1
                     /\ gclkTok'[g].issued = gclkTok[g].issued]_vars

\* Generator 2 was built on the oscillator and freed again: the
\* oscillator's only lock is that of generator 1 and the token is free
C25_Witness ==
    /\ last = Returned("GclkFree", 2)
    /\ gclk[2].st = "none"
    /\ gclkreg[2].src = "XOSC0"
    /\ gclkTok[2].free = 1
    /\ gclk[1].st = "active"
    /\ gclk[1].cfg.src = "Xosc0"
    /\ srcCount["Xosc0"] = 1

\* C26 as stated: an operation that writes a generator's control register
\* returns only after that generator's synchronisation bit was seen clear
\* after the write, so between calls no generator has its bit set.
C26_ReturnsSynced ==
    \A g \in GenIds : (~halted /\ pc = Idle) => ~gclksync[g]

\* Dpll::enable of unit d is under way before or after the step
InDpllEnable(d) ==
    \/ pc.op = "DpllEnable" /\ pc.unit = d
    \/ pc'.op = "DpllEnable" /\ pc'.unit = d

\* The fields of r that hold what enable() writes for the Config c, in the
\* order of the claim: 1 source select, 2 pre-divider field (oscillator
\* variants), 3 loop ratio, 4 lock bypass, 5 wake-up fast, 6 on demand
DpllWritten(r, c, k) ==
    CASE k = 1 -> r.refclk = (CASE c.I = "Pclk" -> "GCLK"
                                [] c.I = "Xosc32k" -> "XOSC32"
                                [] c.I = "Xosc0" -> "XOSC0"
                                [] c.I = "Xosc1" -> "XOSC1")
      [] k = 2 -> c.I \in {"Xosc0", "Xosc1"} => r.div = c.prediv \div 2 - 1
      [] k = 3 -> r.ldr = c.mult - 1 /\ r.ldrfrac = c.frac
      [] k = 4 -> r.lbypass = c.lock_bypass
      [] k = 5 -> r.wuf = c.wake_up_fast
      [] k = 6 -> r.ondemand = c.on_demand

\* C27: a successful enable() writes the source select, the pre-divider
\* field (oscillator variants only), the loop ratio, then, once the ratio
\* synchronisation bit is clear, the lock-bypass, wake-up-fast and on-demand
\* flags, and last the enable bit, and returns once the enable
\* synchronisation bit is clear: a field is written only when all fields
\* before it hold the Config's values, the enable bit is never set before
\* that, and the active node returned has counter 0.
C27_EnableOrder ==
    /\ [](\A d \in DpllIds :
            (dpll[d].st \in {"enabling", "enabled"} /\ dpllreg[d].enable)
               => \A k \in 1 .. 6 : DpllWritten(dpllreg[d], dpll[d].cfg, k))
    /\ [][\A d \in DpllIds :
            (InDpllEnable(d) /\ ~halted')
               => LET r == dpllreg[d]
                      q == dpllreg'[d]
                      c == dpll[d].cfg
                      Done(n) == \A k \in 1 .. n : DpllWritten(r, c, k)
                  IN  /\ q # r => DpllWritten(q, c, 1)
                      /\ q.div # r.div
                           => /\ c.I \in {"Xosc0", "Xosc1"}
                              /\ Done(1) /\ DpllWritten(q, c, 2)
                      /\ <<q.ldr, q.ldrfrac>> # <<r.ldr, r.ldrfrac>>
                           => /\ Done(2) /\ DpllWritten(q, c, 3)
                              /\ dpllsync'[d].dpllratio
                      /\ q.lbypass # r.lbypass
                           => /\ Done(3) /\ DpllWritten(q, c, 4)
                              /\ ~dpllsync[d].dpllratio
                      /\ q.wuf # r.wuf
                           => /\ Done(4) /\ DpllWritten(q, c, 5)
                              /\ ~dpllsync[d].dpllratio
                      /\ q.ondemand # r.ondemand
                           => /\ Done(5) /\ DpllWritten(q, c, 6)
                              /\ ~dpllsync[d].dpllratio
                      /\ q.enable # r.enable
                           => /\ Done(6) /\ q.enable
                              /\ ~dpllsync[d].dpllratio
                              /\ dpllsync'[d].enable
                      /\ Cardinality({f \in {"refclk", "div", "ratio", "lbypass", "wuf",
                                            "ondemand", "enable"} :
                              CASE f = "ratio" -> <<q.ldr, q.ldrfrac>> # <<r.ldr, r.ldrfrac>>
                                [] OTHER -> q[f] # r[f]}) <= 1
                      /\ (pc.op = "DpllEnable" /\ pc' = Idle)
                           => /\ r.enable
                              /\ ~dpllsync[d].enable
                              /\ ~dpllsync[d].dpllratio
                              /\ dpll'[d].st = "enabled"
                              /\ dpll'[d].count = 0
                              /\ dpll'[d].cfg = c]_vars

\* DPLL0, on external oscillator 0 with pre-divider 4, ratio 3000 and all
\* three flags away from their reset values, was enabled
C27_Witness ==
    /\ last = Returned("DpllEnable", 0)
    /\ dpll[0].st = "enabled"
    /\ dpll[0].count = 0
    /\ dpllreg[0] = [refclk |-> "XOSC0", div |-> 1, ldr |-> 2999, ldrfrac |-> 16,
                     lbypass |-> TRUE, wuf |-> TRUE, ondemand |-> FALSE, enable |-> TRUE,
                     clkrdy |-> FALSE, lock |-> FALSE]

\* C28 as stated: after a successful enable() of a DPLL on external
\* oscillator 0 or 1 the pre-divider field holds prediv / 2 - 1, 0 for
\* prediv 2 and 2047 for prediv 4096; enable() of the other variants does
\* not write the field.
C28_PredivField ==
    /\ \A d \in DpllIds :
          (dpll[d].st = "enabled" /\ dpll[d].cfg.I \in {"Xosc0", "Xosc1"})
             => dpllreg[d].div = dpll[d].cfg.prediv \div 2 - 1
    /\ \A d \in DpllIds :
          (pc.op = "DpllEnable" /\ pc.unit = d /\ dpll[d].cfg.I \in {"Pclk", "Xosc32k"})
             => pc.at # "source_div"

\* C29 as stated: after every successful enable() the integer loop-ratio
\* field holds mult - 1, and the Config that passed validation has
\* 1 <= mult <= 8192.
C29_LdrIsMultMinusOne ==
    \A d \in DpllIds :
        dpll[d].st = "enabled"
           => /\ dpll[d].cfg.mult >= 1
              /\ dpll[d].cfg.mult <= 8192
              /\ dpllreg[d].ldr = dpll[d].cfg.mult - 1

AtWait == pc.at \in {"genctrl", "dpllratio", "enable"}

\* The sync-busy bit that the call in progress polls
PolledBit ==
    CASE pc.at = "genctrl" -> gclksync[pc.unit]
      [] pc.at = "dpllratio" -> dpllsync[pc.unit].dpllratio
      [] pc.at = "enable" -> dpllsync[pc.unit].enable
      [] OTHER -> FALSE

\* C31: given that the hardware clears each sync-busy bit it has set, every
\* busy-waiting operation (generator source, divider, enable, disable and
\* output pin; DPLL ratio write, enable and disable) returns; and as long as
\* the polled bit is set the call stays in its loop: it neither returns nor
\* fails.
C31_WaitsReturn ==
    /\ \A op \in {"GclkNew", "GclkSetDiv", "GclkEnable", "GclkDisable",
                  "GclkEnableOut", "GclkDisableOut", "DpllEnable", "DpllDisable"} :
          (pc.op = op) ~> (pc = Idle /\ last.op = op /\ last.outcome = "ok")
    /\ [][(AtWait /\ PolledBit)
             => /\ pc' = pc
                /\ last' = last
                /\ halted' = halted]_vars

C31_Witness ==
    /\ pc.op = "DpllEnable"
    /\ pc.at = "dpllratio"
    /\ dpllsync[0].dpllratio
    /\ gclk[1].st = "active"
    /\ gclkreg[1].oe
    /\ last = Returned("GclkEnableOut", 1)

\* C32: enable_output_pin(polarity) sets the output-enable bit and the
\* output-off value to polarity; disable_output_pin() clears the
\* output-enable bit and nothing else, and no other operation writes the
\* output-off value, so after a disable it is the polarity of the most recent
\* enable_output_pin; both are offered by an active generator at every
\* reference count and leave its enable bit, source, divider and reference
\* count as they were.
C32_OutputPin ==
    /\ [][\A g \in GenIds :
            /\ (pc = Idle /\ pc'.op = "GclkEnableOut" /\ pc'.unit = g)
                  => /\ gclkreg'[g] = [gclkreg[g] EXCEPT !.oe = TRUE, !.oov = pc'.pol]
                     /\ gclk' = gclk
                     /\ srcCount' = srcCount
            /\ (pc = Idle /\ pc'.op = "GclkDisableOut" /\ pc'.unit = g)
                  => /\ gclkreg'[g] = [gclkreg[g] EXCEPT !.oe = FALSE]
                     /\ gclk' = gclk
                     /\ srcCount' = srcCount
            /\ (pc.op \in {"GclkEnableOut", "GclkDisableOut"} /\ pc.unit = g)
                  => /\ gclkreg' = gclkreg
                     /\ gclk' = gclk
                     /\ srcCount' = srcCount
            /\ gclkreg'[g].oov # gclkreg[g].oov
                  => pc = Idle /\ pc'.op = "GclkEnableOut" /\ pc'.unit = g]_vars
    /\ [](\A g \in {1} :
            (Running /\ gclk[g].st = "active")
               => /\ \A pol \in BOOLEAN : ENABLED GclkEnableOut(g, pol)
                  /\ ENABLED GclkDisableOut(g))

C32_Witness ==
    /\ last = Returned("GclkDisableOut", 1)
    /\ pc = Idle
    /\ ~gclkreg[1].oe
    /\ gclkreg[1].oov
    /\ gclkreg[1].genen
    /\ gclk[1].count > 0

\* The division the hardware applies for the DIVSEL and DIV fields of a
\* generator: DIV itself in the direct mode (none for 0 and 1), 2^(DIV + 1)
\* in the doubling mode
HwDivisor(r) ==
    IF r.divsel = "DIV1" THEN (IF r.div = 0 THEN 1 ELSE r.div) ELSE 2^(r.div + 1)

\* C33 as stated: whenever no call is in progress, the divisor recorded in
\* the Config of a generator (as a Config or active) is the divisor encoded
\* in the generator's divider register, also after swap_source and after
\* free followed by new.
C33_DivAgrees ==
    \A g \in GenIds :
        (pc = Idle /\ gclk[g].st \in {"config", "active"})
           => Divider(gclk[g].cfg) = HwDivisor(gclkreg[g])

\* C34 as stated: for every Config whose input frequency passes validation
\* the product input_freq * (mult + frac/32) of Dpll::output_freq stays
\* within u32, and no DPLL is enabled on a product that wrapped into
\* [96000000, 200000000].
C34_NoOverflow ==
    \A d \in DpllIds :
        /\ (dpll[d].st = "config" /\ InputFreqValid(dpll[d].cfg))
              => ~Overflows(dpll[d].cfg)
        /\ dpll[d].st \in {"enabling", "enabled"} => ~Overflows(dpll[d].cfg)

\* 32 times the frequency the hardware produces from the ratio register of
\* a DPLL: input_freq * (LDR + 1 + LDRFRAC / 32), exactly
HwFreqTimes32(d) ==
    Mul32(input_freq(dpll[d].cfg), 32 * (dpllreg[d].ldr + 1) + dpllreg[d].ldrfrac)

\* 32 times the frequency that Dpll::freq reports when its product does not
\* overflow
FreqTimes32(c) == Mul32(input_freq(c), 32 * (c.mult + c.frac \div FracDen))

\* C35 as stated: for every enabled DPLL the fractional field of the ratio
\* register is the configured frac, and freq() is the frequency that the
\* ratio register produces, for every u8 frac.
C35_FracWritten ==
    \A d \in DpllIds :
        dpll[d].st = "enabled"
           => /\ dpllreg[d].ldrfrac = dpll[d].cfg.frac
              /\ ~Overflows(dpll[d].cfg)
              /\ HwFreqTimes32(d) = FreqTimes32(dpll[d].cfg)

\* The DPLLs that hold a lock on the oscillator s: a Config or an enabled
\* DPLL driven by it
DpllHolders(s) ==
    {d \in DpllIds : /\ dpll[d].st \in {"config", "enabling", "enabled", "disabling"}
                     /\ dpll[d].cfg.I = s
                     /\ s \in Oscillators}

\* C36 as stated: in every state reached through the safe operations, a
\* source on which a generator (Config or active) or an oscillator-driven
\* DPLL (Config or enabled) is built has a reference count of at least 1.
C36_SourceStaysLocked ==
    \A s \in GclkSources :
        (GclkHolders(s) # {} \/ DpllHolders(s) # {}) => SourceCount(s) >= 1

C38_OnlyEnableWrites ==
    /\ [][\A d \in DpllIds :
            /\ dpllreg'[d] # dpllreg[d]
                  => \/ InDpllEnable(d)
                     \/ pc = Idle /\ pc'.op = "DpllDisable" /\ pc'.unit = d
            /\ (last' # last /\ last'.unit = d
                  /\ last'.op \in {"DpllFromPclk", "DpllFromXosc", "DpllFromXosc32k",
                                   "DpllSetPrediv", "DpllSetLoopDiv", "DpllSetLockBypass",
                                   "DpllSetWakeUpFast", "DpllSetOnDemand"})
                  => /\ dpllreg' = dpllreg
                     /\ dpllsync' = dpllsync
                     /\ dpll'[d].st = "config"
            /\ DpllConstructed(d)
                  => /\ ~dpll'[d].cfg.lock_bypass
                     /\ ~dpll'[d].cfg.wake_up_fast
                     /\ dpll'[d].cfg.on_demand
            /\ (dpll[d].st = "config" /\ dpll'[d].st = "config")
                  => /\ dpll'[d].cfg.lock_bypass # dpll[d].cfg.lock_bypass
                           => last'.op = "DpllSetLockBypass"
                     /\ dpll'[d].cfg.wake_up_fast # dpll[d].cfg.wake_up_fast
                           => last'.op = "DpllSetWakeUpFast"
                     /\ dpll'[d].cfg.on_demand # dpll[d].cfg.on_demand
                           => last'.op = "DpllSetOnDemand"
            /\ (pc.op = "DpllEnable" /\ pc.unit = d /\ pc' = Idle)
                  => /\ dpllreg'[d].lbypass = dpll[d].cfg.lock_bypass
                     /\ dpllreg'[d].wuf = dpll[d].cfg.wake_up_fast
                     /\ dpllreg'[d].ondemand = dpll[d].cfg.on_demand
                     /\ dpll'[d].cfg = dpll[d].cfg]_vars

C38_Witness ==
    /\ last = Returned("DpllEnable", 0)
    /\ dpll[0].st = "enabled"
    /\ dpll[0].cfg.I = "Xosc32k"
    /\ dpllreg[0].lbypass
    /\ dpllreg[0].wuf
    /\ ~dpllreg[0].ondemand

\* Generator 1 is not active while a generator, as a Config or active, is
\* built on it and holds the lock it took at its construction
DisabledUnderConsumers ==
    /\ gclk[1].st \notin {"active", "swapping"}
    /\ GclkHolders("Gclk1") # {}

\* C39 as stated: at every reference count N the unsafe swap of an active
\* generator unlocks the old source, rewrites the source select and,
\* synchronised, locks the new source, the generator staying active at count
\* N throughout; the unsafe disable_unchecked is applicable at every N,
\* clears the enable bit and returns the Config; and a generator becomes
\* disabled under its consumers through disable_unchecked and through no
\* other operation.
C39_ForcefulOps ==
    /\ [][\A g \in GenIds :
            /\ (pc = Idle /\ pc'.op = "GclkSwapUnsafe" /\ pc'.unit = g)
                  => /\ gclk[g].st = "active"
                     /\ gclk'[g].count = gclk[g].count
                     /\ \A s \in GclkSources \ {"Gclk1"} :
                           SourceCount(s)' =
                              SourceCount(s) - (IF s = gclk[g].cfg.src THEN 1 ELSE 0)
                     /\ gclk[g].cfg.src # "Gclk1" => gclk'[1].count = gclk[1].count
                     /\ gclk[g].cfg.src = "Gclk1" => gclk'[1].count = gclk[1].count - 1
                     /\ gclkreg'[g].genen = gclkreg[g].genen
            /\ (pc.op = "GclkSwapUnsafe" /\ pc.unit = g /\ pc' = Idle)
                  => /\ gclk'[g].st = "active"
                     /\ gclk'[g].count = gclk[g].count
                     /\ gclk'[g].cfg.src = pc.src
                     /\ \A s \in GclkSources \ {"Gclk1"} :
                           SourceCount(s)' = SourceCount(s) + (IF s = pc.src THEN 1 ELSE 0)
                     /\ gclkreg' = gclkreg
            /\ (pc = Idle /\ pc'.op = "GclkDisableUnchecked" /\ pc'.unit = g)
                  => /\ gclk[g].st = "active"
                     /\ gclkreg'[g] = [gclkreg[g] EXCEPT !.genen = FALSE]
                     /\ gclk'[g].cfg = gclk[g].cfg
                     /\ srcCount' = srcCount
            /\ (pc.op = "GclkDisableUnchecked" /\ pc.unit = g /\ pc' = Idle)
                  => /\ ~gclksync[g]
                     /\ gclk'[g].st = "config"
                     /\ gclk'[g].cfg = gclk[g].cfg
                     /\ ~gclkreg'[g].genen
                     /\ srcCount' = srcCount
            /\ (gclk[g].st = "active" /\ gclk[g].count > 0
                  /\ gclk'[g].st \notin {"active", "swapping"})
                  => pc'.op = "GclkDisableUnchecked" /\ pc'.unit = g]_vars
    /\ [](\A g \in {1, 2} :
            (Running /\ gclk[g].st = "active")
               => /\ ENABLED GclkDisableUnchecked(g)
                  /\ (gclk[g].cfg.src = "Xosc0" /\ srcCount["Xosc1"] < MaxCount)
                        => ENABLED GclkSwapUnsafe(g, "Xosc1", 8000000))
    /\ [][(~DisabledUnderConsumers /\ DisabledUnderConsumers')
             => pc'.op = "GclkDisableUnchecked" /\ pc'.unit = 1]_vars

====
